---- MODULE Spec2Model ----
(***************************************************************************)
(* Model of the two-pass build pipeline of src/build.py (main and the     *)
(* functions it calls).  Strings that the code slices or concatenates     *)
(* (page ids, chapter ids, target names, file names) are sequences of      *)
(* tokens, so that id[:2] and f"chapter-{id}" are computed, not assumed.   *)
(* A Python dict is an insertion-ordered sequence of <<key, value>> pairs. *)
(* An optional argument (None or a value) is a set with at most one        *)
(* element.                                                                *)
(***************************************************************************)
EXTENDS Integers, Sequences, FiniteSets, TLC

VARIABLES
    pc,                 \* position of main
    ci,                 \* index of the chapter the chapter loop is at (1-based)
    pi,                 \* index of the page the page loop is at (1-based)
    leave_individual,   \* args.leave_individual: None until main reads it, then {flag}
    HAS_TQDM,           \* whether the import of tqdm succeeded
    temp_file,          \* whether the probe file extract_hierarchy.typ exists
    hierarchy,          \* the value returned by extract_hierarchy
    extract_outcome,    \* how the hierarchy query ended
    page_map,           \* dict: section id -> starting page
    current_page,       \* running page counter
    pdf_files,          \* list of artifact paths, in the order appended
    files,              \* files that exist in BUILD_DIR
    compiles,           \* every invocation of the compiler so far, in order
    failed_compile,     \* None, or {the invocation that exited nonzero}
    counts,             \* every value get_pdf_page_count returned, in order
    probe_failures,     \* how many of those were the fallback 0
    page_map_json,      \* content of BUILD_DIR/page_map.json, None before it is written
    output_pdf,         \* OUTPUT_FILE: None while it does not exist
    bookmarks_txt,      \* lines of BUILD_DIR/bookmarks.txt, None before it is written
    tool_calls,         \* invocations of the merge and metadata tools, in order
    archive,            \* entries of build_pdfs.zip, None while it does not exist
    build_dir,          \* whether BUILD_DIR exists
    gs_on_path,         \* shutil.which("gs"): None until first asked, then {answer}
    printed,            \* kinds of diagnostics written to the terminal
    exit_status,        \* {} while running, {n} once the process has exited
    pdf_pages,          \* add_toc_links: None, or {the annotation lists of the pages
                        \* of the file at pdf_path, first page first}
    link_annotations,   \* add_toc_links: the link annotations its last call built
    links_returned,     \* add_toc_links: None, or {the value its call returned}
    summary,            \* None, or {the totals main prints at its end}
    pass2_drift,        \* whether some artifact of pass 2 has another number of
                        \* pages than get_pdf_page_count returned for it in pass 1
    content_dir,        \* fs_sync: None while base_dir does not exist, else {the
                        \* set of the directories and files under it}
    fs_call,            \* fs_sync: None, or {the last call: its function, what
                        \* was under base_dir before it, and what it returned}
    ignored,            \* IndexignoreEditor: self.ignored
    items,              \* IndexignoreEditor: self.items
    cursor,             \* ListEditor: self.cursor
    scroll,             \* ListEditor: self.scroll
    modified,           \* BaseEditor: self.modified
    indexignore_file,   \* the set of patterns stored in INDEXIGNORE_FILE
    ed_last             \* None, or {the key handler run called last, the answer
                        \* to its save prompt, and what it returned}

vars == <<pc, ci, pi, leave_individual, HAS_TQDM, temp_file, hierarchy, extract_outcome,
          page_map, current_page, pdf_files, files, compiles, failed_compile,
          counts, probe_failures, page_map_json, output_pdf, bookmarks_txt, tool_calls,
          archive, build_dir, gs_on_path, printed, exit_status,
          pdf_pages, link_annotations, links_returned, summary, pass2_drift,
          content_dir, fs_call,
          ignored, items, cursor, scroll, modified, indexignore_file, ed_last>>

\* what the functions of fs_sync read and write
fs == <<content_dir, fs_call>>

\* the fields of the editor and the file it edits
tui == <<ignored, items, cursor, scroll, modified, indexignore_file, ed_last>>

\* what add_toc_links reads and writes
links == <<pdf_pages, link_annotations, links_returned>>

\* what the stages after pass 2 write
late == <<output_pdf, bookmarks_txt, tool_calls, archive, gs_on_path>>

----------------------------------------------------------------------------
\* Bounds of the model.

\* most chapters in a hierarchy
MaxChapters == 2
\* most pages in a hierarchy, all chapters together
MaxPages == 3
\* most page-count read-backs that fail in one build
MaxProbeFailures == 1

----------------------------------------------------------------------------
\* Inputs.

None == {}
Some(v) == {v}

\* page ids a configuration may use: "01a", "01b", "02a"
PageIds == { <<"0", "1", "a">>, <<"0", "1", "b">>, <<"0", "2", "a">> }

SeqsUpTo(S, n) == UNION { [1..k -> S] : k \in 0..n }

\* the hierarchies of at most nch chapters and npg pages in all
RECURSIVE HierarchiesOf(_, _)
HierarchiesOf(nch, npg) ==
    {<<>>} \cup
    IF nch = 0 THEN {}
    ELSE UNION { { <<[pages |-> p]>> \o rest :
                     rest \in HierarchiesOf(nch - 1, npg - Len(p)) } :
                 p \in SeqsUpTo(PageIds, npg) }

RECURSIVE AllPages(_)
\* the page ids of a hierarchy, in document order
AllPages(h) == IF h = <<>> THEN <<>> ELSE Head(h).pages \o AllPages(Tail(h))

\* the place of a page id in the alphabetical order of ids
IdRank(id) == (IF id[2] = "1" THEN 0 ELSE 2) + (IF id[3] = "a" THEN 0 ELSE 1)

\* a configuration lists its pages in alphabetical order of id (an id may
\* be repeated)
InIdOrder(ids) == \A k \in 1..(Len(ids) - 1) : IdRank(ids[k]) <= IdRank(ids[k + 1])

\* the values config.typ can give to `hierarchy`
Hierarchies ==
    { h \in HierarchiesOf(MaxChapters, MaxPages) : InIdOrder(AllPages(h)) }

\* the hierarchy of the worked example: chapters (01a, 01b) and (02a)
ExampleHierarchy ==
    << [pages |-> << <<"0", "1", "a">>, <<"0", "1", "b">> >>],
       [pages |-> << <<"0", "2", "a">> >>] >>

\* the number of pages the compiler produces for a target (the document's
\* content; the values are those of the worked example)
ActualPages(target) ==
    CASE target = <<"cover">> -> 1
      [] target = <<"preface">> -> 2
      [] target = <<"outline">> -> 1
      [] target = <<"0", "1", "a">> -> 3
      [] target = <<"0", "1", "b">> -> 2
      [] target = <<"0", "2", "a">> -> 4
      [] OTHER -> 1

\* what pdfinfo can answer for a produced file
PdfinfoOutcomes == {"pages", "error", "no_pages_line", "not_an_integer"}

----------------------------------------------------------------------------
\* Python helpers.

Min(a, b) == IF a <= b THEN a ELSE b

\* s[:n]
Slice(s, n) == SubSeq(s, 1, Min(n, Len(s)))

DictKeys(d) == { d[n][1] : n \in 1..Len(d) }

\* d[k]
DictGet(d, k) == d[CHOOSE n \in 1..Len(d) : d[n][1] = k][2]

\* mutant of DictSet: an existing key is moved to the end
DictSetMovesKey(d, k, v) ==
    Append(SelectSeq(d, LAMBDA e : e[1] # k), <<k, v>>)

\* d[k] = v: an existing key keeps its position, a new key goes last
DictSet(d, k, v) ==
    IF k \in DictKeys(d)
    THEN [n \in 1..Len(d) |-> IF d[n][1] = k THEN <<k, v>> ELSE d[n]]
    ELSE Append(d, <<k, v>>)

----------------------------------------------------------------------------
\* Names of targets and artifacts.

\* mutant of ChapterId: the whole id of the first page, not its first two
\* characters
ChapterIdWhole(chapter) == chapter.pages[1]

\* chapter_id = first_page["id"][:2]
ChapterId(chapter) == Slice(chapter.pages[1], 2)

\* f"chapter-{chapter_id}"
ChapterTarget(chapter) == <<"chapter-">> \o ChapterId(chapter)

\* BUILD_DIR / f"10_chapter_{chapter_id}_cover.pdf"
ChapterOutput(chapter) == <<"10_chapter_">> \o ChapterId(chapter) \o <<"_cover.pdf">>

\* mutant of PageOutput: one file name for every page
PageOutputNoId(page_id) == <<"20_page_">> \o <<".pdf">>

\* BUILD_DIR / f"20_page_{page_id}.pdf"
PageOutput(page_id) == <<"20_page_">> \o page_id \o <<".pdf">>

CoverOutput == <<"00_cover.pdf">>
PrefaceOutput == <<"01_preface.pdf">>
OutlineOutput == <<"02_outline.pdf">>

----------------------------------------------------------------------------
\* mutant of get_pdf_page_count: a failed read-back counts as one page
get_pdf_page_count_one(outcome, pages) ==
    IF outcome = "pages" THEN pages ELSE 1

\* get_pdf_page_count: the first "Pages:" line parsed as an integer, 0 when
\* pdfinfo fails, prints no such line or prints something int() rejects.
get_pdf_page_count(outcome, pages) ==
    IF outcome = "pages" THEN pages ELSE 0

\* compile_target: the inputs the compiler is started with; pass is the pass
\* of main the call is made in
CompileCmd(pass, target, output, page_offset, pmap) ==
    [pass |-> pass, target |-> target, output |-> output,
     page_offset |-> page_offset, page_map |-> pmap]

\* compile_target prints the compiler's stderr only when quiet is off
CompileErrorOutput(quiet) ==
    IF quiet THEN {} ELSE {"compile_stderr"}

\* the quiet argument of the compile_target calls of main (the default)
MainQuiet == TRUE

\* an exception nobody catches: traceback, exit status 1
Crash(tags) ==
    /\ pc' = "exit"
    /\ exit_status' = Some(1)
    /\ printed' = printed \cup tags \cup {"traceback"}

\* sys.exit(1) after a message
SysExit(tags) ==
    /\ pc' = "exit"
    /\ exit_status' = Some(1)
    /\ printed' = printed \cup tags

\* where the chapter loop goes when it is about to take chapter i
ChapterLoop(h, i, chapter_pc, after_pc) ==
    IF i <= Len(h)
    THEN [pc |-> chapter_pc, ci |-> i, pi |-> 0]
    ELSE [pc |-> after_pc, ci |-> 0, pi |-> 0]

\* mutant of PageLoop: the loop stops one page early
PageLoopSkipsLast(h, i, j, page_pc, chapter_pc, after_pc) ==
    IF j < Len(h[i].pages)
    THEN [pc |-> page_pc, ci |-> i, pi |-> j]
    ELSE ChapterLoop(h, i + 1, chapter_pc, after_pc)

\* where the page loop of chapter i goes when it is about to take page j
PageLoop(h, i, j, page_pc, chapter_pc, after_pc) ==
    IF j <= Len(h[i].pages)
    THEN [pc |-> page_pc, ci |-> i, pi |-> j]
    ELSE ChapterLoop(h, i + 1, chapter_pc, after_pc)

Goto(pos) ==
    /\ pc' = pos.pc
    /\ ci' = pos.ci
    /\ pi' = pos.pi

\* what an earlier build can have left in BUILD_DIR: its page map and the
\* artifact of a page the configuration no longer has
StaleFiles == { <<"page_map.json">>, <<"20_page_", "9", "9", "z", ".pdf">> }

----------------------------------------------------------------------------
Init ==
    /\ pc = "check_dependencies"
    /\ ci = 0
    /\ pi = 0
    /\ leave_individual = None
    /\ HAS_TQDM \in BOOLEAN
    /\ temp_file \in BOOLEAN
    /\ hierarchy = <<>>
    /\ extract_outcome = "none"
    /\ page_map = <<>>
    /\ current_page = 1
    /\ pdf_files = <<>>
    /\ build_dir \in BOOLEAN
    /\ files \in (IF build_dir THEN {{}, StaleFiles} ELSE {{}})
    /\ compiles = <<>>
    /\ failed_compile = None
    /\ counts = <<>>
    /\ probe_failures = 0
    /\ page_map_json = None
    /\ output_pdf = None
    /\ bookmarks_txt = None
    /\ tool_calls = <<>>
    /\ archive = None
    /\ gs_on_path = None
    /\ printed = {}
    /\ exit_status = None
    /\ pdf_pages = None
    /\ link_annotations = <<>>
    /\ links_returned = None
    /\ summary = None
    /\ pass2_drift = FALSE
    /\ content_dir = None
    /\ fs_call = None
    /\ ignored = <<>>
    /\ items = <<>>
    /\ cursor = 0
    /\ scroll = 0
    /\ modified = FALSE
    /\ indexignore_file = {}
    /\ ed_last = None

\* check_dependencies: typst and pdfinfo must be on the PATH
CheckDependencies ==
    /\ pc = "check_dependencies"
    /\ \/ /\ pc' = "clean_build_dir"
          /\ UNCHANGED <<printed, exit_status>>
       \/ SysExit({"missing_dependency"})
    /\ UNCHANGED <<ci, pi, leave_individual, HAS_TQDM, fs, tui, pass2_drift, summary, links, temp_file, hierarchy, extract_outcome,
                   page_map, current_page, pdf_files, files, compiles, failed_compile, counts,
                   probe_failures, page_map_json, late, build_dir>>

\* main: remove BUILD_DIR if it exists and create it empty
CleanBuildDir ==
    /\ pc = "clean_build_dir"
    /\ files' = {}
    /\ build_dir' = TRUE
    /\ pc' = "write_probe"
    /\ UNCHANGED <<ci, pi, leave_individual, HAS_TQDM, fs, tui, pass2_drift, summary, links, temp_file, hierarchy, extract_outcome,
                   page_map, current_page, pdf_files, compiles, failed_compile, counts,
                   probe_failures, page_map_json, late, printed, exit_status>>

\* extract_hierarchy: temp_file.write_text(...) creates the probe file (or
\* replaces one left behind) before the query is started
WriteProbeFile ==
    /\ pc = "write_probe"
    /\ temp_file' = TRUE
    /\ pc' = "extract_hierarchy"
    /\ UNCHANGED <<ci, pi, leave_individual, HAS_TQDM, fs, tui, pass2_drift, summary, links, hierarchy, extract_outcome,
                   page_map, current_page, pdf_files, files, compiles,
                   failed_compile, counts, probe_failures, page_map_json, late,
                   build_dir, printed, exit_status>>

\* mutant of UnlinkProbe: the file is removed at the end of the try body,
\* which only a successful query reaches
UnlinkProbeOnReturn(outcome, exists) ==
    IF outcome = "ok" THEN FALSE ELSE exists

\* the finally clause, run however the try body ended:
\* if temp_file.exists(): temp_file.unlink()
UnlinkProbe(outcome, exists) ==
    IF exists THEN FALSE ELSE exists

\* extract_hierarchy, the query succeeds: data[0]["value"]
ExtractHierarchyOk ==
    /\ pc = "extract_hierarchy"
    /\ \E h \in Hierarchies : hierarchy' = h
    /\ extract_outcome' = "ok"
    /\ temp_file' = UnlinkProbe("ok", temp_file)
    /\ pc' = "pass1_cover"
    /\ UNCHANGED <<ci, pi, leave_individual, HAS_TQDM, fs, tui, pass2_drift, summary, links, page_map, current_page,
                   pdf_files, files, compiles, failed_compile, counts, probe_failures,
                   page_map_json, late, build_dir, printed, exit_status>>

\* extract_hierarchy, the query exits nonzero: CalledProcessError is caught,
\* its stderr printed, sys.exit(1)
ExtractHierarchyNonzero ==
    /\ pc = "extract_hierarchy"
    /\ extract_outcome' = "nonzero_exit"
    /\ temp_file' = UnlinkProbe("nonzero_exit", temp_file)
    /\ SysExit({"hierarchy_stderr"})
    /\ UNCHANGED <<ci, pi, leave_individual, HAS_TQDM, fs, tui, pass2_drift, summary, links, hierarchy, page_map,
                   current_page, pdf_files, files, compiles, failed_compile, counts,
                   probe_failures, page_map_json, late, build_dir>>

\* mutant of ExtractHierarchyRaises: the error is swallowed and the build
\* goes on with an empty hierarchy
ExtractHierarchyRaisesSwallowed ==
    /\ pc = "extract_hierarchy"
    /\ \E outcome \in {"malformed_json", "empty_array"} :
          /\ extract_outcome' = outcome
          /\ temp_file' = UnlinkProbe(outcome, temp_file)
    /\ hierarchy' = <<>>
    /\ pc' = "pass1_cover"
    /\ UNCHANGED <<ci, pi, leave_individual, HAS_TQDM, fs, tui, pass2_drift, summary, links, page_map, current_page,
                   pdf_files, files, compiles, failed_compile, counts,
                   probe_failures, page_map_json, late, build_dir, printed,
                   exit_status>>

\* extract_hierarchy, json.loads raises (malformed JSON) or data[0] raises
\* (empty array): neither is caught by the except clause
ExtractHierarchyRaises ==
    /\ pc = "extract_hierarchy"
    /\ \E outcome \in {"malformed_json", "empty_array"} :
          /\ extract_outcome' = outcome
          /\ temp_file' = UnlinkProbe(outcome, temp_file)
    /\ Crash({})
    /\ UNCHANGED <<ci, pi, leave_individual, HAS_TQDM, fs, tui, pass2_drift, summary, links, hierarchy, page_map,
                   current_page, pdf_files, files, compiles, failed_compile, counts,
                   probe_failures, page_map_json, late, build_dir>>

----------------------------------------------------------------------------
\* Pass 1.

\* current_page += page_count
NextPage(current, page_count) == current + page_count

\* One unit of pass 1: compile_target(target, output); pdf_files.append;
\* page_map[target] = current_page; page_count = get_pdf_page_count(output);
\* current_page += page_count.  A failing compile raises out of main.
Pass1Step(target, output, next) ==
    /\ compiles' = Append(compiles, CompileCmd(1, target, output, None, None))
    /\ \/ /\ failed_compile' = Some(CompileCmd(1, target, output, None, None))
          /\ Crash(CompileErrorOutput(MainQuiet))
          /\ UNCHANGED <<ci, pi, page_map, current_page, pdf_files, files,
                         counts, probe_failures>>
       \/ /\ UNCHANGED failed_compile
          /\ files' = files \cup {output}
          /\ pdf_files' = Append(pdf_files, output)
          /\ page_map' = DictSet(page_map, target, current_page)
          /\ \E outcome \in PdfinfoOutcomes :
                /\ outcome # "pages" => probe_failures < MaxProbeFailures
                /\ probe_failures' =
                      IF outcome = "pages" THEN probe_failures
                      ELSE probe_failures + 1
                /\ LET page_count ==
                           get_pdf_page_count(outcome, ActualPages(target))
                   IN  /\ counts' = Append(counts, page_count)
                       /\ current_page' = NextPage(current_page, page_count)
          /\ Goto(next)
          /\ UNCHANGED <<printed, exit_status>>
    /\ UNCHANGED <<leave_individual, HAS_TQDM, fs, tui, pass2_drift, summary, links, temp_file, hierarchy, extract_outcome,
                   page_map_json, late, build_dir>>

\* Without tqdm the fallback class is used; it has no set_description, so
\* the first pbar.set_description raises AttributeError.
FallbackTqdmRaises ==
    /\ pc = "pass1_cover"
    /\ ~HAS_TQDM
    /\ Crash({})
    /\ UNCHANGED <<ci, pi, leave_individual, HAS_TQDM, fs, tui, pass2_drift, summary, links, temp_file, hierarchy, extract_outcome,
                   page_map, current_page, pdf_files, files, compiles, failed_compile, counts,
                   probe_failures, page_map_json, late, build_dir>>

Pass1Cover ==
    /\ pc = "pass1_cover"
    /\ HAS_TQDM
    /\ Pass1Step(<<"cover">>, CoverOutput, [pc |-> "pass1_preface", ci |-> 0, pi |-> 0])

Pass1Preface ==
    /\ pc = "pass1_preface"
    /\ Pass1Step(<<"preface">>, PrefaceOutput, [pc |-> "pass1_outline", ci |-> 0, pi |-> 0])

\* mutant of Pass1Outline: the outline is recompiled right after its first
\* compile, before the chapters are
Pass1OutlineThenPass2 ==
    /\ pc = "pass1_outline"
    /\ Pass1Step(<<"outline">>, OutlineOutput,
                 [pc |-> "pass2_outline", ci |-> 0, pi |-> 0])

Pass1Outline ==
    /\ pc = "pass1_outline"
    /\ Pass1Step(<<"outline">>, OutlineOutput,
                 ChapterLoop(hierarchy, 1, "pass1_chapter", "write_page_map"))

\* mutant of Pass1EmptyChapter: a chapter without pages is passed over
Pass1EmptyChapterSkipped ==
    /\ pc = "pass1_chapter"
    /\ hierarchy[ci].pages = <<>>
    /\ Goto(ChapterLoop(hierarchy, ci + 1, "pass1_chapter", "write_page_map"))
    /\ UNCHANGED <<leave_individual, HAS_TQDM, fs, tui, pass2_drift, summary, links, temp_file,
                   hierarchy, extract_outcome, page_map, current_page, pdf_files,
                   files, compiles, failed_compile, counts, probe_failures,
                   page_map_json, late, build_dir, printed, exit_status>>

\* chapter["pages"][0] of a chapter without pages raises IndexError
Pass1EmptyChapter ==
    /\ pc = "pass1_chapter"
    /\ hierarchy[ci].pages = <<>>
    /\ Crash({})
    /\ UNCHANGED <<ci, pi, leave_individual, HAS_TQDM, fs, tui, pass2_drift, summary, links, temp_file, hierarchy, extract_outcome,
                   page_map, current_page, pdf_files, files, compiles, failed_compile, counts,
                   probe_failures, page_map_json, late, build_dir>>

Pass1ChapterCover ==
    /\ pc = "pass1_chapter"
    /\ hierarchy[ci].pages # <<>>
    /\ Pass1Step(ChapterTarget(hierarchy[ci]), ChapterOutput(hierarchy[ci]),
                 PageLoop(hierarchy, ci, 1, "pass1_page", "pass1_chapter",
                          "write_page_map"))

Pass1Page ==
    /\ pc = "pass1_page"
    /\ LET page_id == hierarchy[ci].pages[pi]
       IN  Pass1Step(page_id, PageOutput(page_id),
                     PageLoop(hierarchy, ci, pi + 1, "pass1_page", "pass1_chapter",
                              "write_page_map"))

\* json.dump(page_map, f, indent=2) into BUILD_DIR/page_map.json
WritePageMap ==
    /\ pc = "write_page_map"
    /\ page_map_json' = Some(page_map)
    /\ files' = files \cup {<<"page_map.json">>}
    /\ pc' = "pass2_outline"
    /\ UNCHANGED <<ci, pi, leave_individual, HAS_TQDM, fs, tui, pass2_drift, summary, links, temp_file, hierarchy, extract_outcome,
                   page_map, current_page, pdf_files, compiles, failed_compile, counts,
                   probe_failures, late, build_dir, printed, exit_status>>

----------------------------------------------------------------------------
\* Pass 2.

\* the numbers of pages the compiler can produce for a target once it is
\* given a page offset: the number it produced in pass 1, or one page more
\* (the page numbers now printed take room)
Pass2Pages(target) == { ActualPages(target), ActualPages(target) + 1 }

\* the count pass 1 recorded for the unit the next compile of pass 2 is for:
\* pass 2 starts at the third unit (cover and preface are skipped)
Pass1Count(cmds, page_counts) == page_counts[Len(cmds) - Len(page_counts) + 3]

\* mutant of Pass2Step: a failing compile is recorded and the loop goes on
Pass2StepKeepsGoing(target, output, page_offset, pmap, next) ==
    /\ compiles' = Append(compiles, CompileCmd(2, target, output, page_offset, pmap))
    /\ \/ failed_compile' = Some(CompileCmd(2, target, output, page_offset, pmap))
       \/ UNCHANGED failed_compile
    /\ files' = files \cup {output}
    /\ \E pages \in Pass2Pages(target) :
          pass2_drift' = (pass2_drift \/ pages # Pass1Count(compiles, counts))
    /\ Goto(next)
    /\ UNCHANGED <<leave_individual, HAS_TQDM, fs, tui, summary, links, temp_file, hierarchy, extract_outcome,
                   page_map, current_page, pdf_files, counts, probe_failures,
                   page_map_json, late, build_dir, printed, exit_status>>

\* mutant of Pass2Step: pass 2 writes the running page counter into the
\* unit's page map entry
Pass2StepRewritesMap(target, output, page_offset, pmap, next) ==
    /\ compiles' = Append(compiles, CompileCmd(2, target, output, page_offset, pmap))
    /\ \/ /\ failed_compile' = Some(CompileCmd(2, target, output, page_offset, pmap))
          /\ Crash(CompileErrorOutput(MainQuiet))
          /\ UNCHANGED <<ci, pi, files, page_map, pass2_drift>>
       \/ /\ UNCHANGED failed_compile
          /\ files' = files \cup {output}
          /\ \E pages \in Pass2Pages(target) :
                pass2_drift' = (pass2_drift \/ pages # Pass1Count(compiles, counts))
          /\ page_map' = DictSet(page_map, target, current_page)
          /\ Goto(next)
          /\ UNCHANGED <<printed, exit_status>>
    /\ UNCHANGED <<leave_individual, HAS_TQDM, fs, tui, summary, links, temp_file, hierarchy,
                   extract_outcome, current_page, pdf_files, counts, probe_failures,
                   page_map_json, late, build_dir>>

\* mutant of Pass2Step: the page count of the new artifact is read back and
\* the build gives up when it is not the count of pass 1
Pass2StepChecksCount(target, output, page_offset, pmap, next) ==
    /\ compiles' = Append(compiles, CompileCmd(2, target, output, page_offset, pmap))
    /\ \/ /\ failed_compile' = Some(CompileCmd(2, target, output, page_offset, pmap))
          /\ Crash(CompileErrorOutput(MainQuiet))
          /\ UNCHANGED <<ci, pi, files, pass2_drift>>
       \/ /\ UNCHANGED failed_compile
          /\ files' = files \cup {output}
          /\ \E pages \in Pass2Pages(target) :
                /\ pass2_drift' = (pass2_drift \/ pages # Pass1Count(compiles, counts))
                /\ IF pages # Pass1Count(compiles, counts)
                   THEN /\ SysExit({"page_count_changed"})
                        /\ UNCHANGED <<ci, pi>>
                   ELSE /\ Goto(next)
                        /\ UNCHANGED <<printed, exit_status>>
    /\ UNCHANGED <<leave_individual, HAS_TQDM, fs, tui, summary, links, temp_file, hierarchy,
                   extract_outcome, page_map, current_page, pdf_files, counts,
                   probe_failures, page_map_json, late, build_dir>>

\* One unit of pass 2: compile_target(target, output, page_offset[, page_map]).
\* No page count is read back: the number of pages of the new artifact, which
\* replaces the one of pass 1, is read by nobody.  A failing compile raises
\* out of main.
Pass2Step(target, output, page_offset, pmap, next) ==
    /\ compiles' = Append(compiles, CompileCmd(2, target, output, page_offset, pmap))
    /\ \/ /\ failed_compile' = Some(CompileCmd(2, target, output, page_offset, pmap))
          /\ Crash(CompileErrorOutput(MainQuiet))
          /\ UNCHANGED <<ci, pi, files, pass2_drift>>
       \/ /\ UNCHANGED failed_compile
          /\ files' = files \cup {output}
          /\ \E pages \in Pass2Pages(target) :
                pass2_drift' = (pass2_drift \/ pages # Pass1Count(compiles, counts))
          /\ Goto(next)
          /\ UNCHANGED <<printed, exit_status>>
    /\ UNCHANGED <<leave_individual, HAS_TQDM, fs, tui, summary, links, temp_file, hierarchy, extract_outcome,
                   page_map, current_page, pdf_files, counts, probe_failures,
                   page_map_json, late, build_dir>>

\* mutant of Pass2Outline: the outline gets its offset but not the page map
Pass2OutlineNoMap ==
    /\ pc = "pass2_outline"
    /\ Pass2Step(<<"outline">>, OutlineOutput,
                 Some(DictGet(page_map, <<"outline">>)), None,
                 ChapterLoop(hierarchy, 1, "pass2_chapter", "merge"))

Pass2Outline ==
    /\ pc = "pass2_outline"
    /\ Pass2Step(<<"outline">>, OutlineOutput,
                 Some(DictGet(page_map, <<"outline">>)), Some(page_map),
                 ChapterLoop(hierarchy, 1, "pass2_chapter", "merge"))

Pass2ChapterCover ==
    /\ pc = "pass2_chapter"
    /\ LET target == ChapterTarget(hierarchy[ci])
       IN  Pass2Step(target, ChapterOutput(hierarchy[ci]),
                     Some(DictGet(page_map, target)), None,
                     PageLoop(hierarchy, ci, 1, "pass2_page", "pass2_chapter",
                              "merge"))

Pass2Page ==
    /\ pc = "pass2_page"
    /\ LET page_id == hierarchy[ci].pages[pi]
       IN  Pass2Step(page_id, PageOutput(page_id),
                     Some(DictGet(page_map, page_id)), None,
                     PageLoop(hierarchy, ci, pi + 1, "pass2_page", "pass2_chapter",
                              "merge"))

----------------------------------------------------------------------------
\* Merge.

\* how the attempt to use one external tool can end
ToolOutcomes == {"absent", "fails", "ok"}

\* mutant of MergeCalls: the function does not return after pdfunite has
\* succeeded and goes on to gs
MergeCallsNoReturn(pdfunite, gs) ==
    (IF pdfunite # "absent"
     THEN << [tool |-> "pdfunite", step |-> "merge", ok |-> (pdfunite = "ok")] >>
     ELSE <<>>)
    \o
    (IF gs # "absent"
     THEN << [tool |-> "gs", step |-> "merge", ok |-> (gs = "ok")] >>
     ELSE <<>>)

\* merge_pdfs_with_command: the backends run, in order, for the given fate
\* of pdfunite and of gs
MergeCalls(pdfunite, gs) ==
    (IF pdfunite # "absent"
     THEN << [tool |-> "pdfunite", step |-> "merge", ok |-> (pdfunite = "ok")] >>
     ELSE <<>>)
    \o
    (IF pdfunite # "ok" /\ gs # "absent"
     THEN << [tool |-> "gs", step |-> "merge", ok |-> (gs = "ok")] >>
     ELSE <<>>)

\* merge_pdfs_with_command: the backend that wrote the output, if any
MergedBy(pdfunite, gs) ==
    IF pdfunite = "ok" THEN Some("pdfunite")
    ELSE IF gs = "ok" THEN Some("gs")
    ELSE None

\* the fates gs can have, given what shutil.which("gs") answered before
GsFates(on_path) ==
    IF on_path = None THEN ToolOutcomes
    ELSE IF on_path = Some(TRUE) THEN {"fails", "ok"}
    ELSE {"absent"}

\* mutant of NoMergeTool: the function gives up with sys.exit(1)
NoMergeToolExits ==
    [pc |-> "exit", exit_status |-> Some(1), printed |-> {"no_merge_tool"}]

\* merge_pdfs_with_command when no backend wrote the output: the warning is
\* printed and the function falls off its end, back into main
NoMergeTool ==
    [pc |-> "metadata", exit_status |-> None, printed |-> {"no_merge_tool"}]

\* merge_pdfs_with_command(pdf_files, OUTPUT_FILE), then main's message
Merge ==
    /\ pc = "merge"
    /\ LET existing_files == SelectSeq(pdf_files, LAMBDA f : f \in files)
       IN  IF existing_files = <<>>
           THEN /\ pc' = "metadata"
                /\ UNCHANGED <<output_pdf, tool_calls, gs_on_path, printed,
                               exit_status>>
           ELSE \E pdfunite \in ToolOutcomes, gs \in GsFates(gs_on_path) :
                   /\ tool_calls' = tool_calls \o MergeCalls(pdfunite, gs)
                   /\ gs_on_path' = IF pdfunite = "ok" THEN gs_on_path
                                    ELSE Some(gs # "absent")
                   /\ IF MergedBy(pdfunite, gs) # None
                      THEN /\ output_pdf' =
                                 Some([parts |-> existing_files,
                                       info |-> None,
                                       outline |-> <<>>])
                           /\ pc' = "metadata"
                           /\ UNCHANGED <<printed, exit_status>>
                      ELSE /\ UNCHANGED output_pdf
                           /\ printed' = printed \cup NoMergeTool.printed
                           /\ pc' = NoMergeTool.pc
                           /\ exit_status' = NoMergeTool.exit_status
    /\ UNCHANGED <<ci, pi, leave_individual, HAS_TQDM, fs, tui, pass2_drift, summary, links, temp_file, hierarchy,
                   extract_outcome, page_map, current_page, pdf_files, files,
                   compiles, failed_compile, counts, probe_failures,
                   page_map_json, bookmarks_txt, archive, build_dir>>

----------------------------------------------------------------------------
\* Bookmarks and metadata.

\* mutant of BookmarkLines: every entry is written at level 1
BookmarkLinesLevel1(title, level, page) ==
    << <<"BookmarkBegin">>,
       <<"BookmarkTitle", title>>,
       <<"BookmarkLevel", 1>>,
       <<"BookmarkPageNumber", page>> >>

\* the four lines create_pdf_metadata appends for one bookmark
BookmarkLines(title, level, page) ==
    << <<"BookmarkBegin">>,
       <<"BookmarkTitle", title>>,
       <<"BookmarkLevel", level>>,
       <<"BookmarkPageNumber", page>> >>

\* chapter["title"] and page["title"]: the model names a title after its unit
TitleOf(unit) == <<"title of">> \o unit

RECURSIVE PageBookmarks(_, _)
\* create_pdf_metadata: the level-2 entries of the pages of one chapter
PageBookmarks(pages, pmap) ==
    IF pages = <<>> THEN <<>>
    ELSE (IF Head(pages) \in DictKeys(pmap)
          THEN BookmarkLines(TitleOf(Head(pages)), 2, DictGet(pmap, Head(pages)))
          ELSE <<>>)
         \o PageBookmarks(Tail(pages), pmap)

RECURSIVE ChapterBookmarks(_, _)
\* create_pdf_metadata: per chapter a level-1 entry, then its pages
ChapterBookmarks(h, pmap) ==
    IF h = <<>> THEN <<>>
    ELSE (IF ChapterTarget(Head(h)) \in DictKeys(pmap)
          THEN BookmarkLines(TitleOf(ChapterTarget(Head(h))), 1,
                             DictGet(pmap, ChapterTarget(Head(h))))
          ELSE <<>>)
         \o PageBookmarks(Head(h).pages, pmap)
         \o ChapterBookmarks(Tail(h), pmap)

\* create_pdf_metadata: the lines written to the bookmarks file
create_pdf_metadata(h, pmap) ==
    (IF <<"cover">> \in DictKeys(pmap)
     THEN BookmarkLines(<<"Cover">>, 1, DictGet(pmap, <<"cover">>)) ELSE <<>>)
    \o (IF <<"preface">> \in DictKeys(pmap)
        THEN BookmarkLines(<<"Preface">>, 1, DictGet(pmap, <<"preface">>)) ELSE <<>>)
    \o (IF <<"outline">> \in DictKeys(pmap)
        THEN BookmarkLines(<<"Table of Contents">>, 1, DictGet(pmap, <<"outline">>))
        ELSE <<>>)
    \o ChapterBookmarks(h, pmap)

RECURSIVE PdftkOutline(_)
\* what pdftk update_info makes of the bookmark file: title, level and page
\* of every record
PdftkOutline(lines) ==
    IF Len(lines) < 4 THEN <<>>
    ELSE << [title |-> lines[2][2], level |-> lines[3][2], page |-> lines[4][2]] >>
         \o PdftkOutline(SubSeq(lines, 5, Len(lines)))

RECURSIVE PdfMarks(_)
\* apply_pdf_metadata, gs branch: one "/Title (t) /Page p /Count 0 /OUT" mark
\* per record; bm_level is read and not used
PdfMarks(lines) ==
    IF lines = <<>> THEN <<>>
    ELSE IF Head(lines) = <<"BookmarkBegin">>
         THEN << [title |-> lines[2][2], page |-> lines[4][2], count |-> 0] >>
              \o PdfMarks(SubSeq(lines, 5, Len(lines)))
         ELSE PdfMarks(Tail(lines))

\* the outline gs writes for a list of marks: a mark with /Count 0 has no
\* children, so every entry is at the top level
GsOutline(marks) ==
    [n \in 1..Len(marks) |->
        [title |-> marks[n].title, level |-> 1, page |-> marks[n].page]]

\* how pdftk's two steps can end
PdftkOutcomes == {"absent", "fails_info", "fails_bookmarks", "ok"}

\* the title and author main passes
MainInfo == [title |-> "Noteworthy Framework", author |-> "Sihoo Lee, Lee Hojun"]

\* mutant of MetadataCalls: gs is run whenever it is there, also after pdftk
\* has done both of its steps
MetadataCallsGsAlways(pdftk, gs) ==
    (CASE pdftk = "absent" -> <<>>
       [] pdftk = "fails_info" ->
            << [tool |-> "pdftk", step |-> "info", ok |-> FALSE] >>
       [] pdftk = "fails_bookmarks" ->
            << [tool |-> "pdftk", step |-> "info", ok |-> TRUE],
               [tool |-> "pdftk", step |-> "bookmarks", ok |-> FALSE] >>
       [] pdftk = "ok" ->
            << [tool |-> "pdftk", step |-> "info", ok |-> TRUE],
               [tool |-> "pdftk", step |-> "bookmarks", ok |-> TRUE] >>)
    \o
    (IF gs # "absent"
     THEN << [tool |-> "gs", step |-> "metadata", ok |-> (gs = "ok")] >>
     ELSE <<>>)

\* apply_pdf_metadata: the tool runs made for the given fate of pdftk and gs
MetadataCalls(pdftk, gs) ==
    (CASE pdftk = "absent" -> <<>>
       [] pdftk = "fails_info" ->
            << [tool |-> "pdftk", step |-> "info", ok |-> FALSE] >>
       [] pdftk = "fails_bookmarks" ->
            << [tool |-> "pdftk", step |-> "info", ok |-> TRUE],
               [tool |-> "pdftk", step |-> "bookmarks", ok |-> FALSE] >>
       [] pdftk = "ok" ->
            << [tool |-> "pdftk", step |-> "info", ok |-> TRUE],
               [tool |-> "pdftk", step |-> "bookmarks", ok |-> TRUE] >>)
    \o
    (IF pdftk # "ok" /\ gs # "absent"
     THEN << [tool |-> "gs", step |-> "metadata", ok |-> (gs = "ok")] >>
     ELSE <<>>)

\* apply_pdf_metadata: the files it leaves in BUILD_DIR
MetadataFiles(pdftk, gs) ==
    (IF pdftk # "absent" THEN {<<"pdf_info.txt">>} ELSE {})
    \cup (IF pdftk \in {"fails_bookmarks", "ok"}
          THEN {<<"temp_with_metadata.pdf">>} ELSE {})
    \cup (IF pdftk # "ok" /\ gs # "absent" THEN {<<"bookmarks.pdfmark">>} ELSE {})

\* mutant of PdftkBranch: the info step writes its output over pdf_path
PdftkBranchInPlace(pdftk, merged, lines) ==
    CASE pdftk = "ok" ->
           { [pdf EXCEPT !.info = Some(MainInfo), !.outline = PdftkOutline(lines)] :
               pdf \in merged }
      [] pdftk = "fails_bookmarks" ->
           { [pdf EXCEPT !.info = Some(MainInfo)] : pdf \in merged }
      [] OTHER -> merged

\* apply_pdf_metadata, pdftk branch: what is at pdf_path when the branch is
\* left.  Both steps write to files in BUILD_DIR; shutil.move(temp_pdf2,
\* pdf_path) is reached only after both have succeeded.
PdftkBranch(pdftk, merged, lines) ==
    IF pdftk = "ok"
    THEN { [pdf EXCEPT !.info = Some(MainInfo), !.outline = PdftkOutline(lines)] :
             pdf \in merged }
    ELSE merged

\* apply_pdf_metadata, gs branch: what is at pdf_path when the branch is
\* left.  gs writes to temp_pdf; shutil.move(temp_pdf, pdf_path) is reached
\* only after gs has succeeded.
GsBranch(gs, merged, lines) ==
    IF gs = "ok"
    THEN { [pdf EXCEPT !.info = Some(MainInfo),
                       !.outline = GsOutline(PdfMarks(lines))] : pdf \in merged }
    ELSE merged

\* the runs of the metadata tools, each with what was at pdf_path when it
\* was started: the pdftk steps run before anything is moved there, gs runs
\* after the pdftk branch has been left
MetadataRunsAt(pdftk, gs, merged, lines) ==
    LET calls == MetadataCalls(pdftk, gs)
    IN  [k \in 1..Len(calls) |->
            [tool |-> calls[k].tool, step |-> calls[k].step, ok |-> calls[k].ok,
             merged |-> IF calls[k].tool = "pdftk" THEN merged
                        ELSE PdftkBranch(pdftk, merged, lines)]]

\* main: create_pdf_metadata(hierarchy, page_map, bookmarks_file), then
\* apply_pdf_metadata(OUTPUT_FILE, bookmarks_file, title, author).  A tool
\* given a missing input file exits nonzero.
Metadata ==
    /\ pc = "metadata"
    /\ LET lines == create_pdf_metadata(hierarchy, page_map)
       IN  /\ bookmarks_txt' = Some(lines)
           /\ \E pdftk \in PdftkOutcomes, gs \in GsFates(gs_on_path) :
                 /\ output_pdf = None =>
                       pdftk \in {"absent", "fails_info"} /\ gs # "ok"
                 /\ tool_calls' = tool_calls
                                     \o MetadataRunsAt(pdftk, gs, output_pdf, lines)
                 /\ gs_on_path' = IF pdftk = "ok" THEN gs_on_path
                                  ELSE Some(gs # "absent")
                 /\ files' = files \cup {<<"bookmarks.txt">>}
                                   \cup MetadataFiles(pdftk, gs)
                 /\ output_pdf' =
                       IF pdftk = "ok" THEN PdftkBranch(pdftk, output_pdf, lines)
                       ELSE GsBranch(gs, PdftkBranch(pdftk, output_pdf, lines), lines)
                 /\ printed' = IF pdftk = "ok" \/ gs = "ok" THEN printed
                               ELSE printed \cup {"no_metadata_tool"}
    /\ pc' = "cleanup"
    /\ UNCHANGED <<ci, pi, leave_individual, HAS_TQDM, fs, tui, pass2_drift, summary, links, temp_file, hierarchy, extract_outcome,
                   page_map, current_page, pdf_files, compiles, failed_compile, counts,
                   probe_failures, page_map_json, archive, build_dir, exit_status>>

----------------------------------------------------------------------------
\* Cleanup.

\* mutant of zip_build_directory: the directory is walked after it has been
\* removed
zip_removed_directory(dir_files) == {}

\* zip_build_directory: one entry per file under BUILD_DIR
zip_build_directory(dir_files) == dir_files

\* mutant of TotalPages: the running counter itself
TotalPagesCounter(current) == current

\* print(f"Total pages: {current_page - 1}")
TotalPages(current) == current - 1

\* main: archive if asked to, remove BUILD_DIR, print the summary, return.
\* args.leave_individual is read here and nowhere else.
Cleanup ==
    /\ pc = "cleanup"
    /\ \E flag \in BOOLEAN :
          /\ leave_individual' = Some(flag)
          /\ archive' = IF flag THEN Some(zip_build_directory(files)) ELSE archive
    /\ files' = {}
    /\ build_dir' = FALSE
    /\ summary' = Some([total_pages |-> TotalPages(current_page),
                        chapters |-> Len(hierarchy)])
    /\ pc' = "done"
    /\ exit_status' = Some(0)
    /\ UNCHANGED <<ci, pi, HAS_TQDM, fs, tui, pass2_drift, links, temp_file, hierarchy, extract_outcome,
                   page_map, current_page, pdf_files, compiles, failed_compile, counts,
                   probe_failures, page_map_json, output_pdf, bookmarks_txt,
                   tool_calls, gs_on_path, printed>>

----------------------------------------------------------------------------
Next ==
    \/ CheckDependencies
    \/ CleanBuildDir
    \/ WriteProbeFile
    \/ ExtractHierarchyOk
    \/ ExtractHierarchyNonzero
    \/ ExtractHierarchyRaises
    \/ FallbackTqdmRaises
    \/ Pass1Cover
    \/ Pass1Preface
    \/ Pass1Outline
    \/ Pass1EmptyChapter
    \/ Pass1ChapterCover
    \/ Pass1Page
    \/ WritePageMap
    \/ Pass2Outline
    \/ Pass2ChapterCover
    \/ Pass2Page
    \/ Merge
    \/ Metadata
    \/ Cleanup

Spec == Init /\ [][Next]_vars

----------------------------------------------------------------------------
\* add_toc_links.  main does not call it; it is modelled as a function
\* applied to the arguments a build has at hand: the hierarchy, the page
\* map pass 1 makes of it, and the merged file.

\* toc_page=2: the 0-based index of the page that is annotated
toc_page == 2
y_start == 650
line_height == 25
chapter_spacing == 60

\* the link annotation of a chapter title; page is a 0-based page index
ChapterLink(y, page) ==
    [subtype |-> "/Link",
     left |-> 50, bottom |-> y - 5, right |-> 550, top |-> y + 20,
     dest |-> page, view |-> <<"/XYZ", 0, 842, 0>>]

\* mutant of PageLink: the destination is one page further on
PageLinkNextPage(y, page) ==
    [subtype |-> "/Link",
     left |-> 70, bottom |-> y - 5, right |-> 550, top |-> y + 15,
     dest |-> page + 1, view |-> <<"/XYZ", 0, 842, 0>>]

\* the link annotation of a page entry
PageLink(y, page) ==
    [subtype |-> "/Link",
     left |-> 70, bottom |-> y - 5, right |-> 550, top |-> y + 15,
     dest |-> page, view |-> <<"/XYZ", 0, 842, 0>>]

RECURSIVE PageLinksNoAdvance(_, _, _)
\* mutant of PageLinks: current_y is not moved down after a page entry
PageLinksNoAdvance(pages, pmap, y) ==
    IF pages = <<>> THEN <<>>
    ELSE IF Head(pages) \in DictKeys(pmap)
         THEN <<PageLink(y, DictGet(pmap, Head(pages)) - 1)>>
              \o PageLinksNoAdvance(Tail(pages), pmap, y)
         ELSE PageLinksNoAdvance(Tail(pages), pmap, y)

RECURSIVE PageLinks(_, _, _)
\* the links of the pages of one chapter, the first at height y
PageLinks(pages, pmap, y) ==
    IF pages = <<>> THEN <<>>
    ELSE IF Head(pages) \in DictKeys(pmap)
         THEN <<PageLink(y, DictGet(pmap, Head(pages)) - 1)>>
              \o PageLinks(Tail(pages), pmap, y - line_height)
         ELSE PageLinks(Tail(pages), pmap, y)

RECURSIVE ChapterLinksPagesOnly(_, _, _)
\* mutant of ChapterLinks: the chapter title gets no link
ChapterLinksPagesOnly(h, pmap, y) ==
    IF h = <<>> THEN <<>>
    ELSE LET page_links == PageLinks(Head(h).pages, pmap, y)
             y2 == y - line_height * Len(page_links)
         IN  page_links
             \o ChapterLinksPagesOnly(Tail(h), pmap, y2 - chapter_spacing)

RECURSIVE ChapterLinks(_, _, _)
\* the links of the chapters of h, the first at height y
ChapterLinks(h, pmap, y) ==
    IF h = <<>> THEN <<>>
    ELSE LET has == ChapterTarget(Head(h)) \in DictKeys(pmap)
             y1 == IF has THEN y - (line_height + 10) ELSE y
             page_links == PageLinks(Head(h).pages, pmap, y1)
             y2 == y1 - line_height * Len(page_links)
         IN  (IF has
              THEN <<ChapterLink(y, DictGet(pmap, ChapterTarget(Head(h))) - 1)>>
              ELSE <<>>)
             \o page_links
             \o ChapterLinks(Tail(h), pmap, y2 - chapter_spacing)

\* whether the body of add_toc_links raises for a file of npages pages:
\* chapter["pages"][0] of a chapter without pages, writer.pages[i] for an
\* index the document does not have
LinksRaise(h, pmap, npages) ==
    \/ \E i \in 1..Len(h) : h[i].pages = <<>>
    \/ LET link_list == ChapterLinks(h, pmap, y_start)
       IN  \E k \in 1..Len(link_list) : link_list[k].dest >= npages
    \/ toc_page >= npages

\* mutant of Annotate: the list of the page is replaced by the new links
AnnotateReplaces(pages, link_list) ==
    [k \in 1..Len(pages) |->
        IF k = toc_page + 1 THEN link_list ELSE pages[k]]

\* writer.pages[toc_page]["/Annots"]: extended when the page has the key,
\* set to the new list when it has not; every other page is copied as it is
Annotate(pages, link_list) ==
    [k \in 1..Len(pages) |->
        IF k = toc_page + 1 THEN pages[k] \o link_list ELSE pages[k]]

\* mutant of ExceptionCaught: the exception leaves the function
ExceptionEscapes ==
    [pc |-> "exit", links_returned |-> None, exit_status |-> Some(1),
     printed |-> {"traceback"}]

\* except Exception as e: the warning is printed and False returned
ExceptionCaught ==
    [pc |-> "links_returned", links_returned |-> Some(FALSE),
     exit_status |-> None, printed |-> {"links_failed"}]

\* add_toc_links(pdf_path, page_map, hierarchy): whatever is raised inside
\* is caught and makes it return False, leaving the file as it was
AddTocLinks ==
    /\ pc = "add_toc_links"
    /\ \E installed \in BOOLEAN :
          IF ~installed
          THEN /\ links_returned' = Some(FALSE)
               /\ printed' = printed \cup {"no_link_backend"}
               /\ pc' = "links_returned"
               /\ UNCHANGED <<pdf_pages, link_annotations, exit_status>>
          ELSE IF \/ pdf_pages = None
                  \/ \E pages \in pdf_pages : LinksRaise(hierarchy, page_map, Len(pages))
                  \/ ~build_dir
               THEN /\ links_returned' = ExceptionCaught.links_returned
                    /\ printed' = printed \cup ExceptionCaught.printed
                    /\ pc' = ExceptionCaught.pc
                    /\ exit_status' = ExceptionCaught.exit_status
                    /\ UNCHANGED <<pdf_pages, link_annotations>>
               ELSE LET link_list == ChapterLinks(hierarchy, page_map, y_start)
                        pages == CHOOSE pages \in pdf_pages : TRUE
                    IN  /\ link_annotations' = link_list
                        /\ pdf_pages' = Some(Annotate(pages, link_list))
                        /\ links_returned' = Some(TRUE)
                        /\ pc' = "links_returned"
                        /\ UNCHANGED <<printed, exit_status>>
    /\ UNCHANGED <<ci, pi, leave_individual, HAS_TQDM, fs, tui, pass2_drift, summary, temp_file, hierarchy,
                   extract_outcome, page_map, current_page, pdf_files, files,
                   compiles, failed_compile, counts, probe_failures,
                   page_map_json, late, build_dir>>

RECURSIVE ChapterTargets(_)
\* the targets main compiles for the chapters of h, in order
ChapterTargets(h) ==
    IF h = <<>> THEN <<>>
    ELSE (IF Head(h).pages = <<>> THEN <<>>
          ELSE <<ChapterTarget(Head(h))>> \o Head(h).pages)
         \o ChapterTargets(Tail(h))

RECURSIVE Pass1PageMap(_, _, _, _)
\* the page map pass 1 makes for the given targets and page counts
Pass1PageMap(targets, page_counts, pmap, current) ==
    IF targets = <<>> THEN [page_map |-> pmap, current_page |-> current]
    ELSE Pass1PageMap(Tail(targets), Tail(page_counts),
                      DictSet(pmap, Head(targets), current),
                      NextPage(current, Head(page_counts)))

\* The calls of add_toc_links: a hierarchy, the page map of its pass 1 (with
\* a cover and a preface of one or two pages), and as file at pdf_path no
\* file, or the merged document (or one a page shorter), its pages without
\* annotations or each with one that names the page it is on.
InitLinks ==
    /\ pc = "add_toc_links"
    /\ ci = 0
    /\ pi = 0
    /\ leave_individual = None
    /\ HAS_TQDM = TRUE
    /\ temp_file = FALSE
    /\ hierarchy \in Hierarchies
    /\ extract_outcome = "ok"
    /\ \E n_cover \in 1..2, n_preface \in 1..2 :
          LET targets == << <<"cover">>, <<"preface">>, <<"outline">> >>
                         \o ChapterTargets(hierarchy)
              page_counts == [k \in 1..Len(targets) |->
                                 IF k = 1 THEN n_cover
                                 ELSE IF k = 2 THEN n_preface
                                 ELSE ActualPages(targets[k])]
              pass1 == Pass1PageMap(targets, page_counts, <<>>, 1)
          IN  /\ counts = page_counts
              /\ page_map = pass1.page_map
              /\ current_page = pass1.current_page
              /\ page_map_json = Some(pass1.page_map)
              /\ \/ pdf_pages = None
                 \/ \E short \in 0..1, annotated \in BOOLEAN :
                       pdf_pages =
                          Some([k \in 1..(pass1.current_page - 1 - short) |->
                                  IF annotated
                                  THEN <<[subtype |-> "/Text", on |-> k]>>
                                  ELSE <<>>])
    /\ pdf_files = <<>>
    /\ files = {}
    /\ compiles = <<>>
    /\ failed_compile = None
    /\ probe_failures = 0
    /\ output_pdf = None
    /\ bookmarks_txt = None
    /\ tool_calls = <<>>
    /\ archive = None
    /\ build_dir \in BOOLEAN
    /\ gs_on_path = None
    /\ printed = {}
    /\ exit_status = None
    /\ link_annotations = <<>>
    /\ links_returned = None
    /\ summary = None
    /\ pass2_drift = FALSE
    /\ content_dir = None
    /\ fs_call = None
    /\ ignored = <<>>
    /\ items = <<>>
    /\ cursor = 0
    /\ scroll = 0
    /\ modified = FALSE
    /\ indexignore_file = {}
    /\ ed_last = None

NextLinks == AddTocLinks

SpecLinks == InitLinks /\ [][NextLinks]_vars

----------------------------------------------------------------------------
\* Vocabulary of the properties.

\* the key of a chapter cover: "chapter-" and the first two characters of
\* the id of the chapter's first page
ChapterKey(chapter) == <<"chapter-">> \o SubSeq(chapter.pages[1], 1, 2)

RECURSIVE ChapterUnits(_)
\* per chapter its cover, then its pages (a chapter without pages has no
\* first page, hence no cover to name)
ChapterUnits(h) ==
    IF h = <<>> THEN <<>>
    ELSE (IF Head(h).pages = <<>> THEN <<>>
          ELSE <<ChapterKey(Head(h))>> \o Head(h).pages)
         \o ChapterUnits(Tail(h))

\* emission order: cover, preface, outline, then the chapters
EmissionOrder(h) ==
    << <<"cover">>, <<"preface">>, <<"outline">> >> \o ChapterUnits(h)

RECURSIVE ChapterPaths(_)
ChapterPaths(h) ==
    IF h = <<>> THEN <<>>
    ELSE (IF Head(h).pages = <<>> THEN <<>>
          ELSE << <<"10_chapter_">> \o SubSeq(Head(h).pages[1], 1, 2)
                                     \o <<"_cover.pdf">> >>
               \o [k \in 1..Len(Head(h).pages) |->
                      <<"20_page_">> \o Head(h).pages[k] \o <<".pdf">>])
         \o ChapterPaths(Tail(h))

\* the artifact of every unit, in emission order
EmissionPaths(h) ==
    << <<"00_cover.pdf">>, <<"01_preface.pdf">>, <<"02_outline.pdf">> >>
    \o ChapterPaths(h)

Targets(cmds) == [k \in 1..Len(cmds) |-> cmds[k].target]

IsPrefix(s, t) == Len(s) <= Len(t) /\ \A k \in 1..Len(s) : s[k] = t[k]

Pass1Compiles == SelectSeq(compiles, LAMBDA c : c.pass = 1)
Pass2Compiles == SelectSeq(compiles, LAMBDA c : c.pass = 2)

\* the loop of pass 1 has run to its end
Pass1Completed == pc = "write_page_map" \/ page_map_json # None

\* the loop of pass 2 has run to its end
Pass2Completed == pc \in {"merge", "metadata", "cleanup", "done"}

\* the measured page counts of the worked example, in emission order
ExampleCounts == <<1, 2, 1, 1, 3, 2, 1, 4>>

\* the page map of the worked example
ExamplePageMap ==
    << << <<"cover">>, 1 >>, << <<"preface">>, 2 >>, << <<"outline">>, 4 >>,
       << <<"chapter-", "0", "1">>, 5 >>, << <<"0", "1", "a">>, 6 >>,
       << <<"0", "1", "b">>, 9 >>, << <<"chapter-", "0", "2">>, 11 >>,
       << <<"0", "2", "a">>, 12 >> >>

\* no two units of the hierarchy have the same key
DistinctKeys(h) ==
    LET E == EmissionOrder(h)
    IN  Cardinality({ E[k] : k \in 1..Len(E) }) = Len(E)

----------------------------------------------------------------------------
\* C1: when pass 1 has completed, the keys of the page map are exactly
\* cover, preface, outline, one "chapter-<id>" per chapter (id = the first
\* two characters of the id of the chapter's first page) and every page id.
C1_PageMapKeys ==
    Pass1Completed =>
        DictKeys(page_map) =
            { <<"cover">>, <<"preface">>, <<"outline">> }
            \cup { ChapterKey(hierarchy[i]) : i \in 1..Len(hierarchy) }
            \cup UNION { { hierarchy[i].pages[j] : j \in 1..Len(hierarchy[i].pages) } :
                         i \in 1..Len(hierarchy) }

C1_Witness ==
    /\ Pass1Completed
    /\ hierarchy = ExampleHierarchy

\* C2: after pass 1 the cover starts at page 1 and, for consecutive units
\* in emission order, PageMap[next] = PageMap[current] + pageCount(current).
C2_Contiguity ==
    Pass1Completed =>
        LET E == EmissionOrder(hierarchy)
        IN  /\ DictGet(page_map, <<"cover">>) = 1
            /\ \A k \in 1..(Len(E) - 1) :
                  DictGet(page_map, E[k + 1]) = DictGet(page_map, E[k]) + counts[k]

\* C2, where it does hold: hierarchies whose unit keys are pairwise distinct
C2_ContiguityDistinctKeys ==
    (Pass1Completed /\ DistinctKeys(hierarchy)) =>
        LET E == EmissionOrder(hierarchy)
        IN  /\ DictGet(page_map, <<"cover">>) = 1
            /\ \A k \in 1..(Len(E) - 1) :
                  DictGet(page_map, E[k + 1]) = DictGet(page_map, E[k]) + counts[k]

\* C2, the worked example: the measured counts give the expected page map
\* and 15 pages in all
C2_WorkedExample ==
    (Pass1Completed /\ hierarchy = ExampleHierarchy /\ counts = ExampleCounts) =>
        page_map = ExamplePageMap /\ current_page - 1 = 15

\* C3: in the page map of pass 1, starting pages strictly increase along
\* emission order, whatever get_pdf_page_count returned.
C3_StrictlyIncreasing ==
    Pass1Completed =>
        LET E == EmissionOrder(hierarchy)
        IN  \A k, l \in 1..Len(E) :
               k < l => DictGet(page_map, E[k]) < DictGet(page_map, E[l])

\* C4: pass 1 compiles every unit exactly once, in emission order, and gives
\* no compile a page offset or a page map.
C4_Pass1Compiles ==
    LET p1 == Pass1Compiles
        E == EmissionOrder(hierarchy)
    IN  /\ \A k \in 1..Len(p1) :
              /\ p1[k].page_offset = None
              /\ p1[k].page_map = None
              /\ k <= Len(E) /\ p1[k].target = E[k]
        /\ Pass1Completed => Len(p1) = Len(E)

C4_Witness ==
    /\ pc = "write_page_map"
    /\ hierarchy = ExampleHierarchy

\* C5: pass 2 recompiles exactly the outline, the chapter covers and the
\* pages, in that order, not the cover and the preface; each with its own
\* page map entry as page offset; the outline, and no other unit, with the
\* page map, which is the map pass 1 produced.
C5_Pass2Compiles ==
    LET p2 == Pass2Compiles
        E == EmissionOrder(hierarchy)
    IN  /\ \A k \in 1..Len(p2) :
              /\ k + 2 <= Len(E) /\ p2[k].target = E[k + 2]
              /\ p2[k].page_offset = Some(DictGet(page_map, p2[k].target))
              /\ p2[k].page_map = IF k = 1 THEN page_map_json ELSE None
        /\ p2 # <<>> => page_map_json = Some(page_map)
        /\ Pass2Completed => Len(p2) = Len(E) - 2

C5_Witness ==
    /\ pc = "merge"
    /\ hierarchy = ExampleHierarchy

\* C6: once a pass-2 compile has started, every unit has been compiled and
\* its page count read back in pass 1, the pass-1 compiles are exactly the
\* compiles that precede the first pass-2 compile, and the map the outline
\* was given holds the start page of every unit and is the page map ever
\* after.
C6_Barrier ==
    LET p2 == Pass2Compiles
        E == EmissionOrder(hierarchy)
    IN  p2 # <<>> =>
            /\ Len(counts) = Len(E)
            /\ Len(Pass1Compiles) = Len(E)
            /\ \A k \in 1..Len(compiles) :
                  compiles[k].pass = 1 <=> k <= Len(E)
            /\ p2[1].page_map = Some(page_map)
            /\ \A k \in 1..Len(E) : E[k] \in DictKeys(page_map)

C6_Witness ==
    /\ Pass2Compiles # <<>>
    /\ Len(hierarchy) = MaxChapters

\* C7: the order cover, preface, outline, then per chapter its cover and
\* its pages is the order of the pass-1 compiles, of the pass-2 recompiles
\* and of the artifact paths given to the merger.
C7_EmissionOrder ==
    LET E == EmissionOrder(hierarchy)
        P == EmissionPaths(hierarchy)
        p1 == Pass1Compiles
        p2 == Pass2Compiles
    IN  /\ \A k \in 1..Len(p1) : p1[k].target = E[k] /\ p1[k].output = P[k]
        /\ \A k \in 1..Len(p2) : p2[k].target = E[k + 2] /\ p2[k].output = P[k + 2]
        /\ IsPrefix(pdf_files, P)
        /\ Pass1Completed => pdf_files = P
        /\ output_pdf # None => \A f \in output_pdf : f.parts = P

C7_Witness ==
    /\ output_pdf # None
    /\ hierarchy = ExampleHierarchy

\* C8: a compile that exits nonzero, in pass 1 or pass 2, ends the build
\* there: it is the last compile, no merge, metadata, archive or cleanup
\* happens, and the exit status is nonzero.
C8_CompileFailureAborts ==
    failed_compile # None =>
        /\ pc = "exit"
        /\ exit_status # None /\ 0 \notin exit_status
        /\ failed_compile = Some(compiles[Len(compiles)])
        /\ tool_calls = <<>>
        /\ output_pdf = None
        /\ bookmarks_txt = None
        /\ archive = None
        /\ build_dir

C8_Witness ==
    /\ failed_compile # None
    /\ \E c \in failed_compile : c.pass = 2 /\ c.target # <<"outline">>

\* C9: when a compile fails, the compiler's error stream for the failing
\* target has been printed by the time the process has terminated.
C9_DiagnosticsSurfaced ==
    (failed_compile # None /\ exit_status # None) =>
        "compile_stderr" \in printed

\* C10: a hierarchy query that exits nonzero or returns malformed JSON is
\* fatal: nothing is ever compiled and the exit status is nonzero.
C10_ExtractionFailureFatal ==
    extract_outcome \in {"nonzero_exit", "malformed_json"} =>
        /\ pc = "exit"
        /\ exit_status # None /\ 0 \notin exit_status
        /\ compiles = <<>>
        /\ pdf_files = <<>>

C10_Witness ==
    /\ extract_outcome = "malformed_json"
    /\ exit_status = Some(1)

\* C11: once extract_hierarchy has returned or failed (query answered,
\* query exited nonzero, malformed JSON, empty result array) the probe file
\* does not exist.
C11_ProbeFileRemoved ==
    extract_outcome # "none" => ~temp_file

\* the query's answer was not JSON and the process has ended
C11_Witness ==
    /\ extract_outcome = "malformed_json"
    /\ pc = "exit"
    /\ ~temp_file

\* C12: a page-count read-back that fails (pdfinfo error, no "Pages:" line,
\* a value int() rejects) counts as 0 pages and does not end the build, and
\* the unit compiled next starts on the page the failing unit started on.
C12_ZeroCountNonfatal ==
    [][ /\ probe_failures' = probe_failures + 1 =>
            /\ counts' = Append(counts, 0)
            /\ current_page' = current_page
            /\ pc' # "exit"
            /\ exit_status' = None
        /\ ( /\ Len(pdf_files') = Len(pdf_files) + 1
             /\ counts # <<>>
             /\ counts[Len(counts)] = 0 ) =>
            LET E == EmissionOrder(hierarchy)
                n == Len(pdf_files)
            IN  DictGet(page_map', E[n + 1]) = DictGet(page_map, E[n])
      ]_vars

\* the read-back of a unit failed, later units were compiled and the build
\* ran to its end
C12_Witness ==
    /\ pc = "done"
    /\ \E k \in 1..(Len(counts) - 1) : counts[k] = 0

\* the runs of the merge backends so far
MergeRuns == SelectSeq(tool_calls, LAMBDA c : c.step = "merge")

\* C13: when no merge backend is available or every available one fails,
\* the merge returns after its warning and the build goes on through
\* metadata and cleanup to its end with exit status 0: nothing raises, the
\* build is never stuck, and it never leaves with another status.
C13_MergeDegradesSafely ==
    "no_merge_tool" \in printed =>
        /\ output_pdf = None
        /\ pc \in {"metadata", "cleanup", "done"}
        /\ "traceback" \notin printed
        /\ exit_status = IF pc = "done" THEN Some(0) ELSE None
        /\ pc # "done" => ENABLED Next

\* both backends were there and both failed, and the build is complete
C13_Witness ==
    /\ pc = "done"
    /\ exit_status = Some(0)
    /\ "no_merge_tool" \in printed
    /\ Len(MergeRuns) = 2

\* C14: when no merge backend is available, the artifacts of the units are
\* still on disk after the build has finished.
C14_ArtifactsRemain ==
    (pc = "done" /\ "no_merge_tool" \in printed /\ MergeRuns = <<>>) =>
        \A k \in 1..Len(pdf_files) : pdf_files[k] \in files

\* C15: the merge runs pdfunite first and gs second and returns on the first
\* success: pdfunite is only ever the first run, gs runs only as the first
\* run (pdfunite not there) or right after a failed pdfunite, and no run
\* follows a successful one.
C15_MergePriority ==
    LET runs == MergeRuns
    IN  /\ Len(runs) <= 2
        /\ \A k \in 1..Len(runs) :
              /\ runs[k].tool = "pdfunite" => k = 1
              /\ runs[k].tool = "gs" =>
                    k = 1 \/ (runs[k - 1].tool = "pdfunite" /\ ~runs[k - 1].ok)
              /\ runs[k].ok => k = Len(runs)
        /\ pc \in {"metadata", "cleanup", "done"} =>
              (output_pdf # None <=> \E k \in 1..Len(runs) : runs[k].ok)

\* pdfunite failed and gs merged
C15_Witness ==
    /\ Len(MergeRuns) = 2
    /\ MergeRuns[2].tool = "gs"
    /\ MergeRuns[2].ok
    /\ output_pdf # None

RECURSIVE ChapterLevels(_)
\* per chapter level 1 for its entry, then level 2 for each of its pages
ChapterLevels(h) ==
    IF h = <<>> THEN <<>>
    ELSE (IF Head(h).pages = <<>> THEN <<>>
          ELSE <<1>> \o [k \in 1..Len(Head(h).pages) |-> 2])
         \o ChapterLevels(Tail(h))

\* the bookmark level of every unit, in emission order
EmissionLevels(h) == <<1, 1, 1>> \o ChapterLevels(h)

\* C16: the bookmarks file holds one 4-line record per unit, in emission
\* order: cover, preface and outline at level 1, then per chapter its entry
\* at level 1 and its pages at level 2, each with the page map value of its
\* unit; so 3 + (number of chapters) records are at level 1 and (number of
\* pages) at level 2.
C16_Bookmarks ==
    \A lines \in bookmarks_txt :
        LET E == EmissionOrder(hierarchy)
            L == EmissionLevels(hierarchy)
        IN  /\ Len(lines) = 4 * Len(E)
            /\ \A k \in 1..Len(E) :
                  /\ lines[4 * k - 3] = <<"BookmarkBegin">>
                  /\ lines[4 * k - 2][1] = "BookmarkTitle"
                  /\ lines[4 * k - 1] = <<"BookmarkLevel", L[k]>>
                  /\ lines[4 * k] = <<"BookmarkPageNumber", DictGet(page_map, E[k])>>
            /\ Cardinality({ k \in 1..Len(E) : lines[4 * k - 1][2] = 1 })
                  = 3 + Len(hierarchy)
            /\ Cardinality({ k \in 1..Len(E) : lines[4 * k - 1][2] = 2 })
                  = Len(AllPages(hierarchy))
            /\ hierarchy = ExampleHierarchy =>
                  /\ Cardinality({ k \in 1..Len(E) : lines[4 * k - 1][2] = 1 }) = 5
                  /\ Cardinality({ k \in 1..Len(E) : lines[4 * k - 1][2] = 2 }) = 3

C16_Witness ==
    /\ bookmarks_txt # None
    /\ hierarchy = ExampleHierarchy

\* the runs of the metadata backends so far
MetadataRuns == SelectSeq(tool_calls, LAMBDA c : c.step # "merge")

\* C17: the metadata stage runs pdftk first, its info step and then its
\* bookmarks step, and gs only when pdftk is not there or one of its steps
\* failed; when no backend succeeds the function returns False after its
\* warning, nothing raises, and the build completes with exit status 0.
C17_MetadataFallback ==
    LET runs == MetadataRuns
    IN  /\ \A k \in 1..Len(runs) :
              /\ runs[k].step = "info" => runs[k].tool = "pdftk" /\ k = 1
              /\ runs[k].step = "bookmarks" =>
                    /\ runs[k].tool = "pdftk"
                    /\ k = 2 /\ runs[1].step = "info" /\ runs[1].ok
              /\ runs[k].step = "metadata" =>
                    /\ runs[k].tool = "gs"
                    /\ k = Len(runs)
                    /\ \A j \in 1..(k - 1) : runs[j].tool = "pdftk"
                    /\ k > 1 => ~runs[k - 1].ok
        /\ "no_metadata_tool" \in printed =>
              /\ runs # <<>> => ~runs[Len(runs)].ok
              /\ \A pdf \in output_pdf : pdf.info = None /\ pdf.outline = <<>>
              /\ pc \in {"cleanup", "done"}
              /\ "traceback" \notin printed
              /\ exit_status = IF pc = "done" THEN Some(0) ELSE None
              /\ pc # "done" => ENABLED Next
        /\ (pc \in {"cleanup", "done"} /\ "no_metadata_tool" \notin printed) =>
              runs # <<>> /\ runs[Len(runs)].ok

\* the bookmarks step of pdftk failed, gs failed too and the build is
\* complete
C17_Witness ==
    /\ pc = "done"
    /\ exit_status = Some(0)
    /\ "no_metadata_tool" \in printed
    /\ Len(MetadataRuns) = 3

\* C18: when a metadata backend has succeeded, the outline of the merged
\* output has every chapter entry at level 1 and every page entry at
\* level 2: the level of each bookmark record is carried into the outline.
C18_TwoLevelOutline ==
    \A pdf \in output_pdf :
        pdf.info # None =>
            LET L == EmissionLevels(hierarchy)
            IN  /\ Len(pdf.outline) = Len(L)
                /\ \A k \in 1..Len(L) : pdf.outline[k].level = L[k]

\* C19: the build passes through hierarchy extraction, pass 1, the page
\* map, pass 2, merge, metadata and link annotation, and is complete only
\* after add_toc_links has been tried on the merged file.
C19_LinkStageBeforeDone ==
    pc = "done" => links_returned # None

\* a page that carries a link annotation (1-based page number)
LinkedPages ==
    UNION { { k \in 1..Len(pages) :
                \E n \in 1..Len(pages[k]) : pages[k][n].subtype = "/Link" } :
            pages \in pdf_pages }

\* C20: add_toc_links adds link annotations to the outline page only, the
\* page whose number is the page map's entry for the outline, whatever the
\* page counts of cover and preface.
C20_OnlyOutlinePage ==
    links_returned = Some(TRUE) =>
        LinkedPages \subseteq { DictGet(page_map, <<"outline">>) }

\* C20, what does hold: the links go to the third page and to no other
C20_OnlyThirdPage ==
    links_returned = Some(TRUE) => LinkedPages \subseteq {3}

\* C21: add_toc_links appends one link annotation per bookmark entry, in
\* emission order (cover, preface, outline, then each chapter and its
\* pages): as many links as there are bookmark entries.
C21_LinkPerBookmark ==
    links_returned = Some(TRUE) =>
        Len(link_annotations) = Len(EmissionOrder(hierarchy))

\* C21 as amended: one link per chapter entry and per page entry, in
\* emission order, and none for cover, preface and outline: the links are,
\* in number and order, the bookmark entries after the first three.
C21_LinkPerTocEntry ==
    links_returned = Some(TRUE) =>
        LET E == EmissionOrder(hierarchy)
            L == EmissionLevels(hierarchy)
        IN  /\ Len(link_annotations) = Len(E) - 3
            /\ \A k \in 1..Len(link_annotations) :
                  /\ link_annotations[k].left = IF L[k + 3] = 1 THEN 50 ELSE 70
                  /\ link_annotations[k].dest + 1 = DictGet(page_map, E[k + 3])

C21_Witness ==
    /\ links_returned = Some(TRUE)
    /\ hierarchy = ExampleHierarchy

\* C22: every link made by add_toc_links has as destination the page of the
\* document whose number is the page map value of the link's unit (page
\* index: that value less one), shown from the top of the page.
C22_LinkDestinations ==
    links_returned = Some(TRUE) =>
        LET E == EmissionOrder(hierarchy)
        IN  \A k \in 1..Len(link_annotations) :
               /\ link_annotations[k].subtype = "/Link"
               /\ link_annotations[k].dest = DictGet(page_map, E[k + 3]) - 1
               /\ \A pages \in pdf_pages : link_annotations[k].dest + 1 \in 1..Len(pages)
               /\ link_annotations[k].view = <<"/XYZ", 0, 842, 0>>

\* links were made for a document whose outline is its fourth page
C22_Witness ==
    /\ links_returned = Some(TRUE)
    /\ Len(link_annotations) >= 2
    /\ DictGet(page_map, <<"outline">>) = 4

\* C23: add_toc_links only adds: the document written has the pages of the
\* input in the same order, every page but one with its annotation list
\* as it was, and that one with its previous list followed by the new
\* links.
C23_PurelyAdditive ==
    [][ links_returned' = Some(TRUE) =>
           \A before \in pdf_pages : \A after \in pdf_pages' :
               /\ Len(after) = Len(before)
               /\ \E t \in 1..Len(before) :
                     /\ after[t] = before[t] \o link_annotations'
                     /\ \A k \in 1..Len(before) : k # t => after[k] = before[k]
      ]_vars

\* a page that had an annotation has got links after it
C23_Witness ==
    /\ links_returned = Some(TRUE)
    /\ \E pages \in pdf_pages : \E k \in 1..Len(pages) :
          /\ Len(pages[k]) >= 2
          /\ pages[k][1].subtype = "/Text"
          /\ pages[k][2].subtype = "/Link"

\* C24: whatever fails inside add_toc_links (no link backend, no readable
\* file, a page index the document does not have, a chapter without pages,
\* a write that fails) is caught there: the function returns False, nothing
\* is raised out of it, the process goes on, and the file is as it was.
C24_LinkFailuresCaught ==
    pc # "add_toc_links" =>
        /\ pc = "links_returned"
        /\ links_returned # None
        /\ exit_status = None
        /\ "traceback" \notin printed
        /\ ( \/ "no_link_backend" \in printed
             \/ pdf_pages = None
             \/ \E pages \in pdf_pages : Len(pages) < 3
             \/ \E i \in 1..Len(hierarchy) : hierarchy[i].pages = <<>>
             \/ ~build_dir ) => links_returned = Some(FALSE)
        /\ links_returned = Some(FALSE) =>
              /\ link_annotations = <<>>
              /\ LinkedPages = {}

\* the document has no third page and the call has returned
C24_Witness ==
    /\ links_returned = Some(FALSE)
    /\ "links_failed" \in printed
    /\ build_dir
    /\ \E pages \in pdf_pages : Len(pages) < 3

\* C25: a build that runs to its end removes the scratch directory; with
\* --leave-individual it first archives it, one entry per file that is in
\* it, and without the flag it makes no archive.  A build that ends in a
\* fatal error does neither.
C25_CleanupAndArchive ==
    [][ /\ (pc = "cleanup" /\ pc' = "done") =>
            /\ leave_individual' # None
            /\ ~build_dir'
            /\ files' = {}
            /\ leave_individual' = Some(TRUE) => archive' = Some(files)
            /\ leave_individual' = Some(FALSE) => archive' = None
        /\ pc' = "done" => pc \in {"cleanup", "done"}
        /\ pc' = "exit" =>
            /\ archive' = None
            /\ leave_individual' = None
            /\ build_dir' = build_dir
            /\ files' = files
      ]_vars

\* the build is complete and the archive holds the artifacts and the page
\* map
C25_Witness ==
    /\ pc = "done"
    /\ leave_individual = Some(TRUE)
    /\ ~build_dir
    /\ \E entries \in archive :
          {<<"00_cover.pdf">>, <<"02_outline.pdf">>, <<"page_map.json">>}
              \subseteq entries

RECURSIVE SumTo(_, _)
\* the sum of the first n numbers of cs
SumTo(cs, n) == IF n = 0 THEN 0 ELSE SumTo(cs, n - 1) + cs[n]

RECURSIVE FirstOccurrences(_)
\* a sequence without the repetitions of its elements
FirstOccurrences(E) ==
    IF E = <<>> THEN <<>>
    ELSE LET front == FirstOccurrences(SubSeq(E, 1, Len(E) - 1))
         IN  IF \E n \in 1..Len(front) : front[n] = E[Len(E)]
             THEN front
             ELSE Append(front, E[Len(E)])

\* the page map that units E with page counts cs give: the keys in the
\* order of their first unit, each with the start page of its last unit
PageMapOf(E, cs) ==
    LET keys == FirstOccurrences(E)
        last(key) == CHOOSE k \in 1..Len(E) :
                        E[k] = key /\ \A j \in (k + 1)..Len(E) : E[j] # key
    IN  [n \in 1..Len(keys) |-> <<keys[n], 1 + SumTo(cs, last(keys[n]) - 1)>>]

\* C26: page_map.json is a function of the hierarchy and of the page counts
\* of the units alone: whatever an earlier build left behind (a scratch
\* directory with its files, a probe file), the file written has the same
\* keys, values and key order.
C26_PageMapJsonDetermined ==
    (pc = "pass2_outline" /\ page_map_json # None) =>
        page_map_json = Some(PageMapOf(EmissionOrder(hierarchy), counts))

\* page_map.json has just been written for a hierarchy in which a key
\* repeats
C26_Witness ==
    /\ pc = "pass2_outline"
    /\ page_map_json # None
    /\ Len(hierarchy) = 2
    /\ ~DistinctKeys(hierarchy)

\* C27: the total in the final summary is the sum of the page counts of
\* pass 1, which is the start page of the last unit plus its page count
\* less one (15 in the worked example), and the chapter count is the number
\* of chapters of the hierarchy.
C27_Summary ==
    \A s \in summary :
        LET E == EmissionOrder(hierarchy)
        IN  /\ s.total_pages = SumTo(counts, Len(counts))
            /\ s.total_pages = DictGet(page_map, E[Len(E)]) + counts[Len(E)] - 1
            /\ s.chapters = Len(hierarchy)
            /\ (hierarchy = ExampleHierarchy /\ counts = ExampleCounts) =>
                  s.total_pages = 15 /\ s.chapters = 2

C27_Witness ==
    summary = Some([total_pages |-> 15, chapters |-> 2])

\* the page of the merged document on which unit k begins: the artifacts
\* before it are in the document whole
RealStart(E, k) == 1 + SumTo([j \in 1..Len(E) |-> ActualPages(E[j])], k - 1)

\* every artifact has the number of pages that was measured for it: the
\* one of pass 1 when it was measured, and the one of pass 2 that replaced it
CountsAreReal(E) ==
    /\ \A k \in 1..Len(E) : counts[k] = ActualPages(E[k])
    /\ ~pass2_drift

\* C28: for any hierarchy, when every artifact has the page count measured
\* in pass 1, the first page of each unit in the merged document is the
\* page the page map gives for the unit.
C28_StartsAreReal ==
    (output_pdf # None /\ CountsAreReal(EmissionOrder(hierarchy))) =>
        LET E == EmissionOrder(hierarchy)
        IN  \A k \in 1..Len(E) : DictGet(page_map, E[k]) = RealStart(E, k)

\* C28, where it does hold: hierarchies whose unit keys are pairwise
\* distinct
C28_StartsAreRealDistinctKeys ==
    (output_pdf # None /\ DistinctKeys(hierarchy)
        /\ CountsAreReal(EmissionOrder(hierarchy))) =>
        LET E == EmissionOrder(hierarchy)
        IN  \A k \in 1..Len(E) : DictGet(page_map, E[k]) = RealStart(E, k)

\* C29: in pass 1 no key of the page map is assigned twice, for any
\* hierarchy, so that after pass 1 the map has one key per unit compiled.
C29_WriteOnce ==
    Pass1Completed => Len(page_map) = Len(Pass1Compiles)

\* the compile of every step so far that gave the compiler a page map
OutlineMaps(cmds) ==
    { cmds[k].page_map : k \in { j \in 1..Len(cmds) : cmds[j].page_map # None } }

\* C30: once pass 1 has completed no step adds, removes or changes an entry
\* of the page map, and page_map.json, the map the outline is given in
\* pass 2 and the map the bookmarks are made from are that one map.
C30_PageMapFrozen ==
    [][ /\ Pass1Completed => page_map' = page_map
        /\ page_map_json # None => page_map_json' = page_map_json
        /\ page_map_json' # page_map_json => page_map_json' = Some(page_map')
        /\ compiles' # compiles =>
              OutlineMaps(compiles') \subseteq {page_map_json'} \ {None}
        /\ bookmarks_txt' # bookmarks_txt =>
              \A lines \in bookmarks_txt' : \A pmap \in page_map_json' :
                 LET E == EmissionOrder(hierarchy)
                 IN  \A k \in 1..Len(E) : lines[4 * k][2] = DictGet(pmap, E[k])
      ]_vars

\* the build is complete, with bookmarks made for five units or more
C30_Witness ==
    /\ pc = "done"
    /\ bookmarks_txt # None
    /\ Len(page_map) >= 5

----------------------------------------------------------------------------
\* the positions main is at while pass 2 runs
Pass2Positions == {"pass2_outline", "pass2_chapter", "pass2_page"}

\* the stage that follows a stage of main after pass 2
StageAfter(pos) ==
    CASE pos = "merge" -> "metadata"
      [] pos = "metadata" -> "cleanup"
      [] pos = "cleanup" -> "done"
      [] OTHER -> pos

\* C31: pass 2 has no check of its pagination.  No step of pass 2 reads a
\* page count back (the counts, the page counter and the page map stay as
\* pass 1 left them); the step in which an artifact of pass 2 comes out with
\* another number of pages than pass 1 counted goes on to the next unit;
\* after such a step only a failing compile ends the build early, every
\* later stage goes on to the next and the build ends with exit status 0;
\* and the page offsets given to the compiler and the bookmark page numbers
\* are still the start pages computed from the counts of pass 1.
C31_NoSelfCheck ==
    [][ /\ pc \in Pass2Positions =>
              /\ counts' = counts
              /\ probe_failures' = probe_failures
              /\ current_page' = current_page
              /\ page_map' = page_map
        /\ (pass2_drift' /\ ~pass2_drift) =>
              /\ pc' \in (Pass2Positions \cup {"merge"})
              /\ exit_status' = None
              /\ printed' = printed
        /\ (pass2_drift' /\ pc' = "exit") =>
              /\ pc \in Pass2Positions
              /\ failed_compile' = Some(compiles'[Len(compiles')])
        /\ (pass2_drift /\ pc \in {"merge", "metadata", "cleanup"}) =>
              /\ pc' = StageAfter(pc)
              /\ exit_status' = IF pc' = "done" THEN Some(0) ELSE None
        /\ (pass2_drift /\ compiles' # compiles) =>
              LET cmd == compiles'[Len(compiles')]
                  pass1_map == PageMapOf(EmissionOrder(hierarchy), counts)
              IN  cmd.page_offset = Some(DictGet(pass1_map, cmd.target))
        /\ (pass2_drift /\ bookmarks_txt' # bookmarks_txt) =>
              bookmarks_txt' =
                 Some(create_pdf_metadata(
                         hierarchy, PageMapOf(EmissionOrder(hierarchy), counts)))
      ]_vars

\* a build of the worked example in which every count of pass 1 was read
\* correctly and an artifact of pass 2 came out longer has completed, with
\* exit status 0, bookmarks and the total of pass 1
C31_Witness ==
    /\ pass2_drift
    /\ pc = "done"
    /\ exit_status = Some(0)
    /\ hierarchy = ExampleHierarchy
    /\ counts = ExampleCounts
    /\ bookmarks_txt # None
    /\ output_pdf # None
    /\ summary = Some([total_pages |-> 15, chapters |-> 2])

----------------------------------------------------------------------------
\* the height current_y a link rectangle was made at: its bottom is
\* current_y - 5
LinkY(link) == link.bottom + 5

\* C32: the rectangles of page entries start further right (70) than those
\* of chapter entries (50); the first rectangle is made at height 650 and
\* each next one lower: 35 below a chapter entry, 25 below a page entry, and
\* 60 more when a chapter group ends in between; no two rectangles are at
\* the same height.
C32_LinkGeometry ==
    links_returned = Some(TRUE) =>
        LET L == link_annotations
            levels == ChapterLevels(hierarchy)
        IN  /\ Len(L) = Len(levels)
            /\ \A k \in 1..Len(L) :
                  /\ L[k].left = (IF levels[k] = 1 THEN 50 ELSE 70)
                  /\ L[k].right = 550
                  /\ L[k].top = LinkY(L[k]) + (IF levels[k] = 1 THEN 20 ELSE 15)
            /\ L # <<>> => LinkY(L[1]) = 650
            /\ \A k \in 1..(Len(L) - 1) :
                  LinkY(L[k]) - LinkY(L[k + 1]) =
                      (IF levels[k] = 1 THEN 35 ELSE 25)
                      + (IF levels[k + 1] = 1 THEN 60 ELSE 0)
            /\ \A j, k \in 1..Len(L) : j < k => LinkY(L[j]) > LinkY(L[k])

\* the links of the worked example have been made: two chapter entries and
\* three page entries, the last one at height 650 - 35 - 25 - 85 - 35
C32_Witness ==
    /\ links_returned = Some(TRUE)
    /\ hierarchy = ExampleHierarchy
    /\ Len(link_annotations) = 5
    /\ LinkY(link_annotations[5]) = 470
    /\ link_annotations[4].left = 50
    /\ link_annotations[5].left = 70

----------------------------------------------------------------------------
\* the chapters of h that have no pages
EmptyChapters(h) == { i \in 1..Len(h) : h[i].pages = <<>> }

\* the first of them
FirstEmptyChapter(h) ==
    CHOOSE i \in EmptyChapters(h) : \A j \in EmptyChapters(h) : i <= j

\* the positions of main from the end of pass 1 on
AfterPass1 ==
    {"write_page_map", "merge", "metadata", "cleanup", "done"} \cup Pass2Positions

\* C33: with a chapter without pages in the hierarchy, main ends with an
\* uncaught error when pass 1 reaches that chapter: the units before it have
\* been compiled and recorded, pass 1 never completes, there is no compile
\* of pass 2, no merge and no metadata step, and the exit status is not 0.
C33_EmptyChapterFatal ==
    EmptyChapters(hierarchy) # {} =>
        LET first == FirstEmptyChapter(hierarchy)
            before == << <<"cover">>, <<"preface">>, <<"outline">> >>
                      \o ChapterTargets(SubSeq(hierarchy, 1, first - 1))
        IN  /\ pc \notin AfterPass1
            /\ Pass2Compiles = <<>>
            /\ page_map_json = None
            /\ tool_calls = <<>>
            /\ bookmarks_txt = None
            /\ output_pdf = None
            /\ exit_status \subseteq {1}
            /\ pc = "exit" => exit_status = Some(1)
            /\ IsPrefix(Targets(compiles), before)
            /\ (pc = "pass1_chapter" /\ hierarchy[ci].pages = <<>>) =>
                  /\ ci = first
                  /\ Targets(compiles) = before
                  /\ Len(pdf_files) = Len(before)
                  /\ Len(counts) = Len(before)
                  /\ DictKeys(page_map) = { before[k] : k \in 1..Len(before) }
                  /\ exit_status = None
            /\ (pc = "exit" /\ HAS_TQDM /\ failed_compile = None) =>
                  /\ ci = first
                  /\ Targets(compiles) = before
                  /\ Len(pdf_files) = Len(before)
                  /\ Len(counts) = Len(before)
                  /\ DictKeys(page_map) = { before[k] : k \in 1..Len(before) }
                  /\ "traceback" \in printed

\* main has ended at the second chapter, which has no pages, after the
\* cover, the preface, the outline and the two units of the first chapter
C33_Witness ==
    /\ pc = "exit"
    /\ exit_status = Some(1)
    /\ Len(hierarchy) = 2
    /\ hierarchy[1].pages # <<>>
    /\ hierarchy[2].pages = <<>>
    /\ failed_compile = None
    /\ Len(compiles) = 5
    /\ Len(page_map) = 5

----------------------------------------------------------------------------
\* the tool runs a step has added
NewRuns == SubSeq(tool_calls', Len(tool_calls) + 1, Len(tool_calls'))

\* C34: the metadata stage replaces the merged file only after a backend has
\* done all of its steps.  Every run of the stage, the gs fallback after a
\* failed pdftk step included, is started with the merged file as the merge
\* left it; when no run succeeds the file is unchanged and the warning is
\* printed (the function returns False); the file changes only in a stage
\* whose last run succeeded.
C34_ReplaceOnlyOnSuccess ==
    [][ pc = "metadata" =>
            /\ \A k \in 1..Len(NewRuns) : NewRuns[k].merged = output_pdf
            /\ (\A k \in 1..Len(NewRuns) : ~NewRuns[k].ok) =>
                  /\ output_pdf' = output_pdf
                  /\ "no_metadata_tool" \in printed'
            /\ output_pdf' # output_pdf =>
                  /\ NewRuns # <<>>
                  /\ NewRuns[Len(NewRuns)].ok
                  /\ "no_metadata_tool" \notin printed'
      ]_vars

\* the info step of pdftk succeeded, its bookmarks step failed, gs was
\* started with the unmodified merge result and failed too; the merged file
\* has neither info nor outline
C34_Witness ==
    /\ pc = "cleanup"
    /\ Len(MetadataRuns) = 3
    /\ MetadataRuns[1].ok
    /\ ~MetadataRuns[2].ok
    /\ MetadataRuns[3].tool = "gs"
    /\ ~MetadataRuns[3].ok
    /\ output_pdf # None
    /\ MetadataRuns[3].merged = output_pdf
    /\ \A pdf \in output_pdf : pdf.info = None /\ pdf.outline = <<>>
    /\ "no_metadata_tool" \in printed

----------------------------------------------------------------------------
\* src/noteworthy/core/fs_sync.py.  What is under base_dir is a set of
\* entries: a directory or a regular file directly under base_dir, or a file
\* inside one of the directories, with its text.  A name is a sequence of
\* characters; a file name is a stem and a suffix.

\* most pages a chapter of the hierarchy given to fs_sync has
MaxFsPages == 2

DigitChars == <<"0", "1", "2", "3", "4", "5", "6", "7", "8", "9">>

RECURSIVE Str(_)
\* str(n) for n >= 0: the decimal digits of n
Str(n) ==
    IF n < 10 THEN <<DigitChars[n + 1]>>
    ELSE Str(n \div 10) \o <<DigitChars[(n % 10) + 1]>>

\* name.isdigit(): not empty and digits only
IsDigit(name) ==
    /\ name # <<>>
    /\ \A k \in 1..Len(name) : \E d \in 1..10 : name[k] = DigitChars[d]

\* f'{pi}.typ'
PageFileName(pi_) == [stem |-> Str(pi_), suffix |-> ".typ"]

\* ch.get('pages', [])
ChapterPages(ch) == IF "pages" \in DOMAIN ch THEN ch.pages ELSE <<>>

DirEntry(dir) == [kind |-> "dir", dir |-> dir]
\* a regular file directly under base_dir
TopFileEntry(dir) == [kind |-> "file", dir |-> dir]
FileEntry(dir, name, text) == [kind |-> "page", dir |-> dir, name |-> name, text |-> text]

\* pg_file.exists()
FileExists(tree, dir, name) ==
    \E e \in tree : e.kind = "page" /\ e.dir = dir /\ e.name = name

\* the text ensure_content_structure writes into a new page file
DEFAULT_CONTENT_TEMPLATE == "template"

RECURSIVE EnsurePagesOverwrites(_, _, _, _, _)
\* mutant of EnsurePages: the file is written whether it exists or not
EnsurePagesOverwrites(npages, pi_, dir, tree, created) ==
    IF pi_ >= npages THEN [tree |-> tree, created |-> created]
    ELSE LET name == PageFileName(pi_)
             others == { e \in tree :
                           ~(e.kind = "page" /\ e.dir = dir /\ e.name = name) }
         IN  EnsurePagesOverwrites(
                 npages, pi_ + 1, dir,
                 others \cup {FileEntry(dir, name, DEFAULT_CONTENT_TEMPLATE)},
                 Append(created, <<dir, name>>))

RECURSIVE EnsurePages(_, _, _, _, _)
\* ensure_content_structure, the loop over the pages of one chapter, from
\* page index pi_ on: a page file that does not exist is written and its
\* path appended to created
EnsurePages(npages, pi_, dir, tree, created) ==
    IF pi_ >= npages THEN [tree |-> tree, created |-> created]
    ELSE LET name == PageFileName(pi_)
         IN  IF FileExists(tree, dir, name)
             THEN EnsurePages(npages, pi_ + 1, dir, tree, created)
             ELSE EnsurePages(
                      npages, pi_ + 1, dir,
                      tree \cup {FileEntry(dir, name, DEFAULT_CONTENT_TEMPLATE)},
                      Append(created, <<dir, name>>))

RECURSIVE EnsureChapters(_, _, _, _)
\* ensure_content_structure, the loop over the chapters from index ci_ on.
\* ch_dir.mkdir(exist_ok=True) raises FileExistsError when a regular file has
\* the name of the directory.
EnsureChapters(h, ci_, tree, created) ==
    IF ci_ >= Len(h) THEN [tree |-> tree, created |-> created, raised |-> FALSE]
    ELSE LET dir == Str(ci_)
         IN  IF TopFileEntry(dir) \in tree
             THEN [tree |-> tree, created |-> created, raised |-> TRUE]
             ELSE LET done == EnsurePages(Len(ChapterPages(h[ci_ + 1])), 0, dir,
                                          tree \cup {DirEntry(dir)}, created)
                  IN  EnsureChapters(h, ci_ + 1, done.tree, done.created)

\* ensure_content_structure(hierarchy): base_dir.mkdir(parents=True,
\* exist_ok=True), then the loops
ensure_content_structure(h, dir_opt) ==
    LET tree == IF dir_opt = None THEN {} ELSE CHOOSE t \in dir_opt : TRUE
    IN  EnsureChapters(h, 0, tree, <<>>)

\* mutant of ValidPaths: the page files are not entered
ValidPathsDirsOnly(h) ==
    { <<Str(c)>> : c \in 0..(Len(h) - 1) }

\* cleanup_extra_files: valid_paths, the chapter directories and page files
\* of the hierarchy
ValidPaths(h) ==
    { <<Str(c)>> : c \in 0..(Len(h) - 1) }
    \cup UNION { { <<Str(c), PageFileName(p)>> :
                     p \in 0..(Len(ChapterPages(h[c + 1])) - 1) } :
                 c \in 0..(Len(h) - 1) }

\* cleanup_extra_files: the files it unlinks
UnlinkedFiles(tree, valid) ==
    { e \in tree :
        /\ e.kind = "page"
        /\ IsDigit(e.dir)
        /\ e.name.suffix = ".typ"
        /\ IsDigit(e.name.stem)
        /\ <<e.dir, e.name>> \notin valid }

\* cleanup_extra_files: the directories it removes, given the files it has
\* unlinked
RemovedDirs(tree, valid, unlinked) ==
    { e \in tree :
        /\ e.kind = "dir"
        /\ IsDigit(e.dir)
        /\ <<e.dir>> \notin valid
        /\ ~\E f \in tree \ unlinked : f.kind = "page" /\ f.dir = e.dir }

\* str(f), str(ch_dir): the path of an entry below base_dir
PathOf(e) == IF e.kind = "page" THEN <<e.dir, e.name>> ELSE <<e.dir>>

\* cleanup_extra_files(hierarchy): what is left and what it returns.  The
\* order of the returned list is the order of iterdir(), which the platform
\* chooses: the list is modelled by the set of its elements.
cleanup_extra_files(h, dir_opt) ==
    IF dir_opt = None THEN [tree |-> None, deleted |-> {}]
    ELSE LET tree == CHOOSE t \in dir_opt : TRUE
             valid == ValidPaths(h)
             unlinked == UnlinkedFiles(tree, valid)
             removed == RemovedDirs(tree, valid, unlinked)
         IN  [tree |-> Some((tree \ unlinked) \ removed),
              deleted |-> { PathOf(e) : e \in unlinked \cup removed }]

\* the state of main apart from its position, the hierarchy and what the
\* later stages write
build == <<ci, pi, leave_individual, HAS_TQDM, temp_file, extract_outcome, page_map,
           current_page, pdf_files, files, compiles, failed_compile, counts,
           probe_failures, page_map_json, build_dir, printed, exit_status, summary,
           pass2_drift>>

\* a chapter of a hierarchy: a dict with or without the key 'pages'
FsChapters ==
    { [title |-> "t"] }
    \cup { [title |-> "t", pages |-> [k \in 1..n |-> "pg"]] : n \in 0..MaxFsPages }

\* the hierarchies the functions are called with
FsHierarchies == UNION { [1..n -> FsChapters] : n \in 0..MaxChapters }

\* names of entries directly under base_dir: "0", "1", "00", "x"
DirNames == { <<"0">>, <<"1">>, <<"0", "0">>, <<"x">> }

DirStates == {"absent", "file", "empty", "pages", "mixed"}

\* what one name under base_dir can stand for before a call: nothing, a
\* regular file, an empty directory, a directory with 0.typ and 1.typ, or a
\* directory with 1.typ, n.typ and 1.txt; the files hold the user's text
DirContents(dir, st) ==
    CASE st = "absent" -> {}
      [] st = "file" -> { TopFileEntry(dir) }
      [] st = "empty" -> { DirEntry(dir) }
      [] st = "pages" ->
           { DirEntry(dir),
             FileEntry(dir, PageFileName(0), "user"),
             FileEntry(dir, PageFileName(1), "user") }
      [] st = "mixed" ->
           { DirEntry(dir),
             FileEntry(dir, PageFileName(1), "user"),
             FileEntry(dir, [stem |-> <<"n">>, suffix |-> ".typ"], "user"),
             FileEntry(dir, [stem |-> <<"1">>, suffix |-> ".txt"], "user") }

InitialTrees ==
    { UNION { DirContents(d, f[d]) : d \in DirNames } : f \in [DirNames -> DirStates] }

\* Before the first call: a hierarchy, and base_dir absent or holding one of
\* the initial trees.
InitFs ==
    /\ pc = "fs_sync"
    /\ hierarchy \in FsHierarchies
    /\ content_dir \in ({None} \cup { Some(t) : t \in InitialTrees })
    /\ fs_call = None
    /\ ci = 0
    /\ pi = 0
    /\ leave_individual = None
    /\ HAS_TQDM = TRUE
    /\ temp_file = FALSE
    /\ extract_outcome = "none"
    /\ page_map = <<>>
    /\ current_page = 1
    /\ pdf_files = <<>>
    /\ build_dir = FALSE
    /\ files = {}
    /\ compiles = <<>>
    /\ failed_compile = None
    /\ counts = <<>>
    /\ probe_failures = 0
    /\ page_map_json = None
    /\ output_pdf = None
    /\ bookmarks_txt = None
    /\ tool_calls = <<>>
    /\ archive = None
    /\ gs_on_path = None
    /\ printed = {}
    /\ exit_status = None
    /\ pdf_pages = None
    /\ link_annotations = <<>>
    /\ links_returned = None
    /\ summary = None
    /\ pass2_drift = FALSE
    /\ ignored = <<>>
    /\ items = <<>>
    /\ cursor = 0
    /\ scroll = 0
    /\ modified = FALSE
    /\ indexignore_file = {}
    /\ ed_last = None

\* a call of ensure_content_structure(hierarchy).  When mkdir raises, what
\* was created before stays and nothing is returned.
EnsureContentStructure ==
    /\ pc = "fs_sync"
    /\ LET r == ensure_content_structure(hierarchy, content_dir)
       IN  /\ content_dir' = Some(r.tree)
           /\ fs_call' = Some([op |-> "ensure",
                               before |-> content_dir,
                               raised |-> r.raised,
                               created |-> r.created,
                               returned |-> IF r.raised THEN None
                                            ELSE Some(r.created)])
    /\ UNCHANGED <<pc, hierarchy, build, late, links, tui>>

\* a call of cleanup_extra_files(hierarchy)
CleanupExtraFiles ==
    /\ pc = "fs_sync"
    /\ LET r == cleanup_extra_files(hierarchy, content_dir)
       IN  /\ content_dir' = r.tree
           /\ fs_call' = Some([op |-> "cleanup",
                               before |-> content_dir,
                               raised |-> FALSE,
                               returned |-> Some(r.deleted)])
    /\ UNCHANGED <<pc, hierarchy, build, late, links, tui>>

NextFs ==
    \/ EnsureContentStructure
    \/ CleanupExtraFiles

SpecFs == InitFs /\ [][NextFs]_vars

----------------------------------------------------------------------------
\* what is under base_dir ({} when it does not exist)
TreeOf(dir_opt) == UNION dir_opt

\* the paths of the page files of a hierarchy, chapter by chapter and page
\* by page
RECURSIVE HierarchyPagePaths(_, _)
HierarchyPagePaths(h, c) ==
    IF c >= Len(h) THEN <<>>
    ELSE [p \in 1..Len(ChapterPages(h[c + 1])) |-> <<Str(c), PageFileName(p - 1)>>]
         \o HierarchyPagePaths(h, c + 1)

\* the entry belongs to a (chapter index, page index) or to a chapter index
\* of the hierarchy
InHierarchy(h, e) ==
    \E c \in 0..(Len(h) - 1) :
        /\ e.dir = Str(c)
        /\ e.kind = "page" =>
              \E p \in 0..(Len(ChapterPages(h[c + 1])) - 1) : e.name = PageFileName(p)

\* the step is a call of the named function
FsCallOf(op) == fs_call' # fs_call /\ \E c \in fs_call' : c.op = op

\* C35: ensure_content_structure overwrites and deletes nothing: every entry
\* under base_dir before the call is there after it with the same text; what
\* it adds are chapter directories and page files of the hierarchy, with the
\* template text; when it returns, every chapter directory and page file of
\* the hierarchy exists and the list returned is the list of the page files
\* it added, in order; and a call that follows a call that returned, with
\* the same hierarchy, returns the empty list and changes nothing.
C35_EnsureIdempotent ==
    [][ FsCallOf("ensure") =>
          LET before == TreeOf(content_dir)
              after == TreeOf(content_dir')
              call == CHOOSE c \in fs_call' : TRUE
              all_pages == HierarchyPagePaths(hierarchy, 0)
          IN  /\ before \subseteq after
              /\ \A e, f \in after : PathOf(e) = PathOf(f) => e = f
              /\ \A e \in after \ before :
                    /\ InHierarchy(hierarchy, e)
                    /\ e.kind \in {"dir", "page"}
                    /\ e.kind = "page" => e.text = DEFAULT_CONTENT_TEMPLATE
              /\ ~call.raised =>
                    /\ \A c \in 0..(Len(hierarchy) - 1) : DirEntry(Str(c)) \in after
                    /\ \A k \in 1..Len(all_pages) :
                          FileExists(after, all_pages[k][1], all_pages[k][2])
                    /\ call.returned =
                          Some(SelectSeq(all_pages,
                                         LAMBDA p : ~FileExists(before, p[1], p[2])))
                    /\ { PathOf(e) : e \in { f \in after \ before : f.kind = "page" } }
                          = { call.created[k] : k \in 1..Len(call.created) }
              /\ \A prev \in fs_call :
                    (prev.op = "ensure" /\ ~prev.raised) =>
                        /\ content_dir' = content_dir
                        /\ call.returned = Some(<<>>)
      ]_vars

\* a second call for two chapters of two pages has returned the empty list;
\* the first one had found 1.typ and files of the user in both directories
\* and had added 0.typ to each
C35_Witness ==
    /\ Len(hierarchy) = 2
    /\ \A c \in 1..2 : Len(ChapterPages(hierarchy[c])) = 2
    /\ \E call \in fs_call :
          /\ call.op = "ensure"
          /\ call.returned = Some(<<>>)
          /\ call.before = content_dir
    /\ \A d \in { <<"0">>, <<"1">> } :
          /\ FileEntry(d, PageFileName(0), DEFAULT_CONTENT_TEMPLATE) \in TreeOf(content_dir)
          /\ FileEntry(d, PageFileName(1), "user") \in TreeOf(content_dir)
          /\ FileEntry(d, [stem |-> <<"n">>, suffix |-> ".typ"], "user")
                \in TreeOf(content_dir)

\* C36: cleanup_extra_files deletes no page file and no chapter directory of
\* the hierarchy.  It adds nothing; every file it deletes is a .typ file
\* with a digit stem in a digit-named directory and is no page of the
\* hierarchy; every directory it removes is digit-named, no chapter of the
\* hierarchy, and empty after the files were deleted; it returns the paths
\* it deleted; and called right after ensure_content_structure with the
\* same hierarchy it deletes none of the files that call created.
C36_CleanupSparesHierarchy ==
    [][ FsCallOf("cleanup") =>
          LET before == TreeOf(content_dir)
              after == TreeOf(content_dir')
              call == CHOOSE c \in fs_call' : TRUE
              gone == before \ after
          IN  /\ after \subseteq before
              /\ (content_dir' = None) = (content_dir = None)
              /\ \A e \in gone :
                    /\ ~InHierarchy(hierarchy, e)
                    /\ IsDigit(e.dir)
                    /\ e.kind \in {"dir", "page"}
                    /\ e.kind = "page" =>
                          e.name.suffix = ".typ" /\ IsDigit(e.name.stem)
                    /\ e.kind = "dir" =>
                          ~\E f \in after : f.kind = "page" /\ f.dir = e.dir
              /\ call.returned = Some({ PathOf(e) : e \in gone })
              /\ \A prev \in fs_call :
                    prev.op = "ensure" =>
                        \A k \in 1..Len(prev.created) :
                            /\ prev.created[k] \notin UNION call.returned
                            /\ FileExists(after, prev.created[k][1], prev.created[k][2])
      ]_vars

\* cleanup was called right after an ensure call that had created 0.typ in
\* chapter directory 0: it has deleted 1.typ there and both files of
\* directory 00, removed directory 00, and kept 0.typ
C36_Witness ==
    /\ Len(hierarchy) = 1
    /\ Len(ChapterPages(hierarchy[1])) = 1
    /\ \E call \in fs_call :
          /\ call.op = "cleanup"
          /\ { <<<<"0">>, PageFileName(1)>>, <<<<"0", "0">>, PageFileName(0)>>,
               <<<<"0", "0">>>> } \subseteq UNION call.returned
          /\ FileEntry(<<"0">>, PageFileName(1), "user") \in TreeOf(call.before)
          /\ FileEntry(<<"0">>, PageFileName(0), DEFAULT_CONTENT_TEMPLATE)
                \in TreeOf(call.before)
    /\ FileEntry(<<"0">>, PageFileName(0), DEFAULT_CONTENT_TEMPLATE) \in TreeOf(content_dir)
    /\ DirEntry(<<"0", "0">>) \notin TreeOf(content_dir)

----------------------------------------------------------------------------
\* src/noteworthy/tui: BaseEditor, ListEditor and IndexignoreEditor.  One
\* action is one turn of the loop of BaseEditor.run: the key read, the
\* handler bound to it, and the refresh that follows.  do_export and
\* do_import are left out: what they do is decided by core.config_mgmt.

\* the last item of the list
Sentinel == "+ Add new ignore pattern..."

\* the patterns a file or the line editor can give; the line editor takes
\* every printable character, so the text of the sentinel is one of them
Patterns == { "+ Add new ignore pattern...", "01a", "02a" }

\* the place of a pattern in the order of str: "+" sorts before "0"
PatternRank(p) ==
    CASE p = "+ Add new ignore pattern..." -> 0
      [] p = "01a" -> 1
      [] p = "02a" -> 2

\* the list without its k-th element
RemoveAt(list, k) == SubSeq(list, 1, k - 1) \o SubSeq(list, k + 1, Len(list))

RECURSIVE Sort(_)
\* list.sort() and sorted(list)
Sort(list) ==
    IF list = <<>> THEN <<>>
    ELSE LET k == CHOOSE i \in 1..Len(list) :
                     /\ \A j \in 1..Len(list) :
                           PatternRank(list[i]) <= PatternRank(list[j])
                     /\ \A j \in 1..(i - 1) :
                           PatternRank(list[j]) # PatternRank(list[i])
         IN  <<list[k]>> \o Sort(RemoveAt(list, k))

RECURSIVE ListOf(_)
\* list(a_set): its elements in some order
ListOf(S) ==
    IF S = {} THEN <<>>
    ELSE LET x == CHOOSE x \in S : TRUE IN <<x>> \o ListOf(S \ {x})

\* set(a_list)
SetOf(list) == { list[k] : k \in 1..Len(list) }

\* _update_items: self.items = self.ignored + [sentinel]
update_items(ignored_list) == ignored_list \o <<Sentinel>>

\* heights scr.getmaxyx() can give
TermHeights == {8, 10, 30}

Max(a, b) == IF a >= b THEN a ELSE b

\* jump = h - 8; if jump < 1: jump = 1
Jump(h) == IF h - 8 < 1 THEN 1 ELSE h - 8

cursor_up(cur) == Max(0, cur - 1)

cursor_down(cur, n) == Min(n - 1, cur + 1)
cursor_pgup(cur, h) == Max(0, cur - Jump(h))
cursor_pgdn(cur, n, h) == Min(n - 1, cur + Jump(h))
cursor_home == 0
cursor_end(n) == n - 1

\* ListEditor.refresh: the scroll offset it leaves for a list of n items
refresh(sc, cur, n, h) ==
    LET list_h == Min(n + 2, h - 8)
        vis == list_h - 2
    IN  IF cur < sc THEN cur
        ELSE IF cur >= sc + vis THEN cur - vis + 1
        ELSE sc

\* the keys the save prompt can be answered with
PromptKeys == {"y", "n", "c", "Y", "q"}

\* mutant of prompt_save: a key that is none of y, n, c counts as n
prompt_save_other_is_no(key) == IF key \in {"y", "n", "c"} THEN key ELSE "n"

\* TUI.prompt_save: chr(c) if c in (ord('y'), ord('n'), ord('c')) else 'c'
prompt_save(key) == IF key \in {"y", "n", "c"} THEN key ELSE "c"

\* IndexignoreEditor.save: the file gets set(self.ignored), modified is
\* cleared, True is returned
save(ignored_list) ==
    [file |-> SetOf(ignored_list), modified |-> FALSE, returned |-> TRUE]

\* IndexignoreEditor(scr): the state after __init__, for every content of
\* the indexignore file; run has not been called
InitEditor ==
    /\ pc = "editor_run"
    /\ indexignore_file \in SUBSET Patterns
    /\ ignored = Sort(ListOf(indexignore_file))
    /\ items = update_items(ignored)
    /\ cursor = 0
    /\ scroll = 0
    /\ modified = FALSE
    /\ ed_last = None
    /\ hierarchy = <<>>
    /\ content_dir = None
    /\ fs_call = None
    /\ ci = 0
    /\ pi = 0
    /\ leave_individual = None
    /\ HAS_TQDM = TRUE
    /\ temp_file = FALSE
    /\ extract_outcome = "none"
    /\ page_map = <<>>
    /\ current_page = 1
    /\ pdf_files = <<>>
    /\ build_dir = FALSE
    /\ files = {}
    /\ compiles = <<>>
    /\ failed_compile = None
    /\ counts = <<>>
    /\ probe_failures = 0
    /\ page_map_json = None
    /\ output_pdf = None
    /\ bookmarks_txt = None
    /\ tool_calls = <<>>
    /\ archive = None
    /\ gs_on_path = None
    /\ printed = {}
    /\ exit_status = None
    /\ pdf_pages = None
    /\ link_annotations = <<>>
    /\ links_returned = None
    /\ summary = None
    /\ pass2_drift = FALSE

\* what no action of the editor touches
NotEditor == <<hierarchy, build, late, links, fs>>

\* BaseEditor.run, before the loop: self.refresh()
EditorRun ==
    /\ pc = "editor_run"
    /\ \E h \in TermHeights : scroll' = refresh(scroll, cursor, Len(items), h)
    /\ pc' = "editor_loop"
    /\ UNCHANGED <<ignored, items, cursor, modified, indexignore_file, ed_last, NotEditor>>

\* run: check_terminal_size returns False (the terminal is too small and q
\* or Esc is pressed): run returns
TerminalTooSmall ==
    /\ pc = "editor_loop"
    /\ pc' = "editor_returned"
    /\ ed_last' = Some([action |-> "too_small", prompt |-> None, res |-> None])
    /\ UNCHANGED <<ignored, items, cursor, scroll, modified, indexignore_file, NotEditor>>

\* run, after the handler of a key has returned res: return on 'EXIT',
\* else self.refresh() and the next turn
AfterHandler(name, prompt, res) ==
    /\ ed_last' = Some([action |-> name, prompt |-> prompt, res |-> res])
    /\ IF res = Some("EXIT")
       THEN /\ pc' = "editor_returned"
            /\ UNCHANGED scroll
       ELSE /\ pc' = "editor_loop"
            /\ \E h \in TermHeights :
                  scroll' = refresh(scroll, cursor', Len(items'), h)

\* the navigation keys: cursor_up, cursor_down, cursor_pgup, cursor_pgdn,
\* cursor_home, cursor_end
Navigate ==
    /\ pc = "editor_loop"
    /\ \E key \in {"UP", "DOWN", "PGUP", "PGDN", "HOME", "END"}, h \in TermHeights :
          /\ cursor' =
                CASE key = "UP" -> cursor_up(cursor)
                  [] key = "DOWN" -> cursor_down(cursor, Len(items))
                  [] key = "PGUP" -> cursor_pgup(cursor, h)
                  [] key = "PGDN" -> cursor_pgdn(cursor, Len(items), h)
                  [] key = "HOME" -> cursor_home
                  [] key = "END" -> cursor_end(Len(items))
          /\ UNCHANGED <<ignored, items, modified, indexignore_file>>
          /\ AfterHandler(key, None, None)
    /\ UNCHANGED NotEditor

\* action_add with the value LineEditor.run() returned: None after Esc, else
\* the text typed, which can be empty
action_add(val, ignored_list, is_modified) ==
    IF val # None /\ val # Some("") /\ ~(val \subseteq SetOf(ignored_list))
    THEN LET added == Sort(ignored_list \o ListOf(val))
         IN  [ignored |-> added, items |-> update_items(added), modified |-> TRUE]
    ELSE [ignored |-> ignored_list, items |-> update_items(ignored_list),
          modified |-> is_modified]

\* key n: action_add
ActionAdd ==
    /\ pc = "editor_loop"
    /\ \E val \in {None, Some("")} \cup { Some(p) : p \in Patterns } :
          LET r == action_add(val, ignored, modified)
          IN  /\ ignored' = r.ignored
              /\ items' = IF r.ignored = ignored THEN items ELSE r.items
              /\ modified' = r.modified
    /\ UNCHANGED <<cursor, indexignore_file>>
    /\ AfterHandler("add", None, None)
    /\ UNCHANGED NotEditor

\* Enter: action_enter, which adds when the item under the cursor is the
\* sentinel text
ActionEnter ==
    /\ pc = "editor_loop"
    /\ IF items[cursor + 1] = Sentinel
       THEN \E val \in {None, Some("")} \cup { Some(p) : p \in Patterns } :
               LET r == action_add(val, ignored, modified)
               IN  /\ ignored' = r.ignored
                   /\ items' = IF r.ignored = ignored THEN items ELSE r.items
                   /\ modified' = r.modified
       ELSE UNCHANGED <<ignored, items, modified>>
    /\ UNCHANGED <<cursor, indexignore_file>>
    /\ AfterHandler("enter", None, None)
    /\ UNCHANGED NotEditor

\* action_delete for the given fields: what it leaves
action_delete(ignored_list, item_list, cur, is_modified) ==
    IF item_list # <<>> /\ item_list[cur + 1] # Sentinel
    THEN LET left == RemoveAt(ignored_list, cur + 1)
             new_items == update_items(left)
         IN  [ignored |-> left, items |-> new_items, modified |-> TRUE,
              cursor |-> IF cur >= Len(new_items)
                         THEN Max(0, Len(new_items) - 1) ELSE cur]
    ELSE [ignored |-> ignored_list, items |-> item_list, modified |-> is_modified,
          cursor |-> cur]

\* key d: action_delete
ActionDelete ==
    /\ pc = "editor_loop"
    /\ LET r == action_delete(ignored, items, cursor, modified)
       IN  /\ ignored' = r.ignored
           /\ items' = r.items
           /\ modified' = r.modified
           /\ cursor' = r.cursor
    /\ UNCHANGED indexignore_file
    /\ AfterHandler("delete", None, None)
    /\ UNCHANGED NotEditor

\* the save key: self.save()
Save ==
    /\ pc = "editor_loop"
    /\ indexignore_file' = save(ignored).file
    /\ modified' = save(ignored).modified
    /\ UNCHANGED <<ignored, items, cursor>>
    /\ AfterHandler("save", None,
                    Some(IF save(ignored).returned THEN "True" ELSE "False"))
    /\ UNCHANGED NotEditor

\* save_dialog for a modified editor and the key the prompt is answered
\* with: whether it is safe to exit, and what save() left if it was called
save_dialog(key, ignored_list, file) ==
    LET answer == prompt_save(key)
    IN  IF answer = "c"
        THEN [safe |-> FALSE, file |-> file, modified |-> TRUE]
        ELSE IF answer = "y"
        THEN [safe |-> save(ignored_list).returned,
              file |-> save(ignored_list).file,
              modified |-> save(ignored_list).modified]
        ELSE [safe |-> TRUE, file |-> file, modified |-> TRUE]

\* the exit key: do_exit.  An unmodified editor returns 'EXIT' at once; a
\* modified one asks save_dialog and returns 'EXIT' when that says it is
\* safe, None when it does not.
DoExit ==
    /\ pc = "editor_loop"
    /\ UNCHANGED <<ignored, items, cursor>>
    /\ IF ~modified
       THEN /\ UNCHANGED <<indexignore_file, modified>>
            /\ AfterHandler("do_exit", None, Some("EXIT"))
       ELSE \E key \in PromptKeys :
               LET r == save_dialog(key, ignored, indexignore_file)
               IN  /\ indexignore_file' = r.file
                   /\ modified' = r.modified
                   /\ AfterHandler("do_exit", Some(key),
                                   IF r.safe THEN Some("EXIT") ELSE None)
    /\ UNCHANGED NotEditor

NextEditor ==
    \/ EditorRun
    \/ TerminalTooSmall
    \/ Navigate
    \/ ActionAdd
    \/ ActionEnter
    \/ ActionDelete
    \/ Save
    \/ DoExit

SpecEditor == InitEditor /\ [][NextEditor]_vars

\* ------------------------------------------------------------------
\* The claims about the editors
\* ------------------------------------------------------------------

\* the step is a turn of run's loop that called the named handler
EditorStep(name) ==
    /\ pc = "editor_loop"
    /\ ed_last' # None
    /\ \A e \in ed_last' : e.action = name

\* a list of patterns in Python's string order without a repetition
SortedDuplicateFree(list) ==
    \A i, j \in 1..Len(list) : i < j => PatternRank(list[i]) < PatternRank(list[j])

\* the cursor is on an item and items is the ignored list, sorted and
\* duplicate-free, followed by the sentinel
EditorShape ==
    /\ 0 <= cursor
    /\ cursor < Len(items)
    /\ SortedDuplicateFree(ignored)
    /\ items = ignored \o <<Sentinel>>

\* a delete with the cursor on the k-th ignored entry removes that entry and
\* nothing else; with the cursor on the sentinel it removes nothing
DeleteRemovesUnderCursor ==
    IF cursor < Len(ignored)
    THEN ignored' = RemoveAt(ignored, cursor + 1)
    ELSE ignored' = ignored /\ items' = items

\* C37: after any sequence of navigation, add and delete actions the cursor
\* is within items, items is the sorted duplicate-free ignored list followed
\* by the sentinel, and a delete removes exactly the ignored entry under the
\* cursor and never the sentinel.
C37_EditorInvariants ==
    [][ /\ EditorShape'
        /\ EditorStep("delete") => DeleteRemovesUnderCursor ]_vars

\* C37, the part that holds: the cursor range and the composition of items
C37_EditorShape == EditorShape

\* C37, the part that holds: a delete with the cursor on an ignored entry
\* whose text is not the sentinel's removes exactly that entry, and a delete
\* with the cursor on the sentinel removes nothing
C37_DeleteUnlessSentinelText ==
    [][ (EditorStep("delete") /\ items[cursor + 1] # Sentinel)
            => ignored' = RemoveAt(ignored, cursor + 1) ]_vars

\* C37: a delete ran with the cursor on an ignored entry and removed nothing
C37_UndeletableEntry ==
    /\ pc = "editor_loop"
    /\ ed_last # None
    /\ \A e \in ed_last : e.action = "delete"
    /\ ignored # <<>>
    /\ cursor = 0
    /\ ignored[1] = Sentinel

\* C38: do_exit signals exit without a prompt when the editor is
\* unmodified; when it is modified, exit is signalled only if the prompt is
\* answered n, or answered y and save() returned True (the file then holds
\* the ignored list and the flag is cleared); any other answer cancels: run
\* goes on with the list, the file and the modified flag as they were.
C38_DoExit ==
    [][ EditorStep("do_exit") =>
          \A e \in ed_last' :
             IF ~modified
             THEN /\ e.prompt = None
                  /\ e.res = Some("EXIT")
                  /\ pc' = "editor_returned"
             ELSE /\ e.prompt # None
                  /\ (pc' = "editor_returned") <=> (e.res = Some("EXIT"))
                  /\ e.res = Some("EXIT") =>
                        \/ e.prompt = Some("n")
                        \/ /\ e.prompt = Some("y")
                           /\ indexignore_file' = SetOf(ignored)
                           /\ ~modified'
                  /\ e.prompt \notin {Some("n"), Some("y")} =>
                        /\ e.res = None
                        /\ pc' = "editor_loop"
                        /\ modified'
                        /\ ignored' = ignored
                        /\ items' = items
                        /\ indexignore_file' = indexignore_file ]_vars

\* C38: a modified editor whose prompt was answered with a key that is none
\* of y, n and c keeps running, modified, with its list differing from the
\* file
C38_Witness ==
    /\ pc = "editor_loop"
    /\ modified
    /\ SetOf(ignored) # indexignore_file
    /\ ed_last = Some([action |-> "do_exit", prompt |-> Some("Y"), res |-> None])

====
